---- MODULE Spec2Model ----
(***************************************************************************)
(* Leverage Looper (mugentime/leverage-looper): the valuation functions,   *)
(* the per-position loop driver, the portfolio cycle with its sweep, and   *)
(* the host service that runs cycles periodically and on demand.           *)
(*                                                                         *)
(* Python floats are modelled as exact rationals <<n, d>> with d > 0 in    *)
(* lowest terms, so equal values are equal tuples.                         *)
(***************************************************************************)
EXTENDS Integers, Sequences, FiniteSets, TLC

(***************************************************************************)
(* Bounds of the model.                                                    *)
(***************************************************************************)
MaxPrice == 2
MaxAmount == 8
MaxChecks == 2
MaxFaults == 2
MaxPositions == 2
MaxSweepPositions == 3
MaxRequests == 3
MaxDiskFaults == 2

(***************************************************************************)
(* Program constants.                                                      *)
(***************************************************************************)
MIN_LOOP_USD == 1
MIN_RESERVE_USD == 10
max_loops == 50
HISTORY_CAP == 1000
TARGET_LTV == <<3, 4>>

(***************************************************************************)
(* Rational arithmetic standing for the float arithmetic of the code.      *)
(***************************************************************************)
RECURSIVE GCD(_, _)
GCD(a, b) == IF b = 0 THEN a ELSE GCD(b, a % b)

Abs(n) == IF n < 0 THEN -n ELSE n

Norm(n, d) ==
    LET g == GCD(Abs(n), d)
    IN  IF n = 0 THEN <<0, 1>> ELSE <<n \div g, d \div g>>

R(n) == <<n, 1>>

ZeroF == <<0, 1>>

\* The value a Python division by zero never produces: the marker of a
\* ZeroDivisionError.
ZeroDivisionError == <<0, 0>>

RAdd(x, y) == Norm(x[1] * y[2] + y[1] * x[2], x[2] * y[2])
RSub(x, y) == Norm(x[1] * y[2] - y[1] * x[2], x[2] * y[2])
RMul(x, y) == Norm(x[1] * y[1], x[2] * y[2])
RDiv(x, y) ==
    IF y[1] = 0 THEN ZeroDivisionError
    ELSE IF y[1] > 0 THEN Norm(x[1] * y[2], x[2] * y[1])
    ELSE Norm(-(x[1] * y[2]), x[2] * (-y[1]))
RLt(x, y) == x[1] * y[2] < y[1] * x[2]
RLe(x, y) == x[1] * y[2] <= y[1] * x[2]
RMin(x, y) == IF RLe(x, y) THEN x ELSE y

(***************************************************************************)
(* Assets, position records and the price feed.                            *)
(***************************************************************************)
Coins == {"USDT", "BTC", "ETH"}

NonStable == Coins \ {"USDT"}

\* Assets a spot wallet can hold: the coins and a Simple Earn token.
SpotAssets == Coins \cup {"LDBTC"}

\* The answers get_price can give: 0.0 stands for a failed lookup.
Prices == 0 .. MaxPrice

PriceFeeds == [NonStable -> Prices]

\* _get_price: 1.0 for the stablecoin, otherwise the feed's answer, 0.0 when
\* the lookup failed.
GetPrice(coin, feed) == IF coin = "USDT" THEN R(1) ELSE R(feed[coin])

\* A row of the venue's ongoing-orders list.
Loan(cc, lc, ca, td) ==
    [collateralCoin |-> cc, loanCoin |-> lc, collateralAmount |-> ca, totalDebt |-> td]

\* get_current_leverage, with a division that is not guarded by the
\* underwater test (a faulty variant of get_current_leverage).
get_current_leverage_unguarded(loan, feed) ==
    LET coll_price == GetPrice(loan.collateralCoin, feed)
        loan_price == GetPrice(loan.loanCoin, feed)
        coll_usd == RMul(loan.collateralAmount, coll_price)
        debt_usd == RMul(loan.totalDebt, loan_price)
    IN  IF coll_price = ZeroF \/ loan_price = ZeroF THEN ZeroF
        ELSE RDiv(coll_usd, RSub(coll_usd, debt_usd))

get_current_leverage(loan, feed) ==
    LET coll_price == GetPrice(loan.collateralCoin, feed)
        loan_price == GetPrice(loan.loanCoin, feed)
        coll_usd == RMul(loan.collateralAmount, coll_price)
        debt_usd == RMul(loan.totalDebt, loan_price)
        equity == RSub(coll_usd, debt_usd)
    IN  IF coll_price = ZeroF \/ loan_price = ZeroF THEN ZeroF
        ELSE IF RLe(coll_usd, debt_usd) THEN ZeroF
        ELSE IF RLt(ZeroF, equity) THEN RDiv(coll_usd, equity) ELSE ZeroF

\* calculate_borrow_amount without the minimum-loop test (a faulty variant of
\* calculate_borrow_amount).
calculate_borrow_amount_nomin(loan, feed) ==
    LET coll_price == GetPrice(loan.collateralCoin, feed)
        loan_price == GetPrice(loan.loanCoin, feed)
        coll_usd == RMul(loan.collateralAmount, coll_price)
        current_debt_usd == RMul(loan.totalDebt, loan_price)
        borrow_usd == RSub(RMul(coll_usd, TARGET_LTV), current_debt_usd)
    IN  IF coll_price = ZeroF \/ loan_price = ZeroF THEN <<ZeroF, ZeroF>>
        ELSE <<RDiv(borrow_usd, loan_price), borrow_usd>>

\* Returns <<borrow_amount_in_loan_coin, borrow_usd_value>>.
calculate_borrow_amount(loan, feed) ==
    LET coll_price == GetPrice(loan.collateralCoin, feed)
        loan_price == GetPrice(loan.loanCoin, feed)
        coll_usd == RMul(loan.collateralAmount, coll_price)
        current_debt_usd == RMul(loan.totalDebt, loan_price)
        target_debt_usd == RMul(coll_usd, TARGET_LTV)
        borrow_usd == RSub(target_debt_usd, current_debt_usd)
    IN  IF coll_price = ZeroF \/ loan_price = ZeroF THEN <<ZeroF, ZeroF>>
        ELSE IF RLt(borrow_usd, R(MIN_LOOP_USD)) THEN <<ZeroF, ZeroF>>
        ELSE <<RDiv(borrow_usd, loan_price), borrow_usd>>

(***************************************************************************)
(* State.                                                                  *)
(*   venueLoans, price, feedDown, spot: the venue's side: the ongoing      *)
(*     orders, the market prices, the coins whose ticker lookup fails, the *)
(*     spot wallet.  faults: how many more requests go wrong, answered by  *)
(*     an HTTP error body or by an exception (-1: any number).             *)
(*   pc, fr: per task, the await it is suspended at and its locals.        *)
(*   check_count, last_result: the globals of main.py.                     *)
(*   history, starting_equity, starting_timestamp: the ProfitTracker;      *)
(*     file: its data file; diskFaults: how many more writes of it fail;   *)
(*     now: the clock, counted in timestamps taken.                        *)
(*   req, out: per P&L endpoint, the await its handler is suspended at,    *)
(*     and its locals and last response; requests: how many more requests  *)
(*     the service receives.                                               *)
(*   calcIn, calcOut: argument and result of a valuation call.             *)
(***************************************************************************)
VARIABLES venueLoans, price, feedDown, spot, faults,
          pc, fr, check_count, last_result, history, starting_equity,
          calcIn, calcOut,
          starting_timestamp, file, diskFaults, now, req, out, requests

vars == <<venueLoans, price, feedDown, spot, faults,
          pc, fr, check_count, last_result, history, starting_equity,
          calcIn, calcOut,
          starting_timestamp, file, diskFaults, now, req, out, requests>>

venueVars == <<venueLoans, price, feedDown, spot, faults>>
handlerVars == <<req, out, requests>>
trackerState == <<history, starting_equity, starting_timestamp, file, diskFaults, now>>
trackerVars == <<trackerState, handlerVars>>
calcVars == <<calcIn, calcOut>>

\* The tasks that run portfolio cycles: the monitoring task and the handler
\* of a POST /loop request.
Procs == {"monitor", "manual"}

\* The value of faults that stands for any number of requests going wrong.
Unlimited == 0 - 1

\* What client.get_price answers for each coin now.
Feed == [c \in NonStable |-> IF c \in feedDown THEN 0 ELSE price[c]]

\* The market's rate of a coin in USDT.
Rate(coin) == IF coin = "USDT" THEN R(1) ELSE R(price[coin])

(***************************************************************************)
(* BinanceClient: the answers of the venue.                                *)
(***************************************************************************)
\* _request: the venue's JSON body ("ok"), the JSON body of an HTTP error,
\* returned like any other ("rejected"), or an exception of the transport
\* ("raise").
Answers == {"ok"} \cup (IF faults # 0 THEN {"rejected", "raise"} ELSE {})

\* The calls made through python-binance: the result, or an exception.
Replies == {"ok"} \cup (IF faults # 0 THEN {"raise"} ELSE {})

Spend(a) == IF a # "ok" /\ faults > 0 THEN faults - 1 ELSE faults

\* get_flexible_loan_ongoing_orders: result.get('rows', []).
Rows(a) == IF a = "ok" THEN venueLoans ELSE <<>>

\* f"{amount:.8f}": the amount rounded to 8 decimals.
FormatAmount(x) ==
    IF 100000000 % x[2] = 0 THEN x
    ELSE Norm((x[1] * 100000000 + x[2] \div 2) \div x[2], 100000000)

\* get_all_spot_balances, which the code calls on its client: the answers
\* it can give, and the mapping asset -> amount it returns.
SpotBalancesAnswers == Replies

get_all_spot_balances == spot

Matches(l, cc, lc) == l.collateralCoin = cc /\ l.loanCoin = lc

\* The first row of a list with the given coins, as the for/break loops of
\* loop_position find it; NoLoan when there is none.
NoLoan == Loan("", "", ZeroF, ZeroF)

FindLoan(loans, cc, lc) ==
    LET hits == {i \in 1 .. Len(loans) : Matches(loans[i], cc, lc)}
    IN  IF hits = {} THEN NoLoan
        ELSE loans[CHOOSE i \in hits : \A j \in hits : i <= j]

\* The venue's list after it accepted a borrow of the amount.
Borrowed(loans, cc, lc, amount) ==
    [i \in 1 .. Len(loans) |->
        IF Matches(loans[i], cc, lc)
        THEN [loans[i] EXCEPT !.totalDebt = RAdd(@, FormatAmount(amount))]
        ELSE loans[i]]

(***************************************************************************)
(* The locals of a task.                                                   *)
(***************************************************************************)
LoopOutcome(ok, b, a, e) ==
    [success |-> ok, borrowed_usd |-> b, added_usd |-> a, error |-> e]

ExIdle ==
    [result |-> LoopOutcome(FALSE, ZeroF, ZeroF, "None"),
     borrow_amount |-> ZeroF, convert_amount |-> ZeroF,
     usdt_received |-> ZeroF, add_amount |-> ZeroF,
     accepted |-> FALSE]

PositionResult(cc, lc, lev) ==
    [position |-> <<cc, lc>>, initial_leverage |-> lev, final_leverage |-> lev,
     loops_executed |-> 0, total_borrowed_usd |-> ZeroF,
     total_added_usd |-> ZeroF, errors |-> <<>>]

LpIdle ==
    [coll_coin |-> "", loan_coin |-> "", result |-> PositionResult("", "", ZeroF),
     loop_count |-> 0, current_loan |-> NoLoan, cycles |-> 0]

SweepResult == [swept_usd |-> ZeroF, positions_swept |-> 0, details |-> <<>>]

\* deposits: the USDT deposits the sweep attempted, each with the amount
\* handed to adjust_loan_ltv and the amount its request carried.
SwIdle ==
    [balances |-> [a \in SpotAssets |-> ZeroF], i |-> 0, j |-> 0, result |-> SweepResult,
     deposits |-> <<>>]

CycleResult(n) ==
    [kind |-> "result", positions_processed |-> n, positions_looped |-> 0,
     total_loops |-> 0, total_borrowed_usd |-> ZeroF, total_added_usd |-> ZeroF,
     swept_usd |-> ZeroF, details |-> <<>>]

\* Beside the locals, what a cycle did so far: driven, the positions
\* loop_position was called on; fetches, the list fetches issued; stamp, the
\* fetch that produced loans; driver_stamp, the last fetch of a driver;
\* sweeps and sweep_stamp, the calls of the sweep and the fetch its list
\* came from; calls, the kinds of borrow, trade, convert and adjust requests
\* issued;
\* ended, how the cycle ended; at, the await a cancellation arrived at;
\* snap, the list calculate_total_equity fetched.
FrameIdle ==
    [loans |-> <<>>, sorted_loans |-> <<>>, idx |-> 0, result |-> CycleResult(0),
     lp |-> LpIdle, ex |-> ExIdle, sw |-> SwIdle,
     driven |-> <<>>, fetches |-> 0, stamp |-> 0, driver_stamp |-> 0,
     sweeps |-> 0, sweep_stamp |-> 0, calls |-> {}, ended |-> "no", at |-> "none",
     snap |-> <<>>]

\* A task continues at label l with locals f.
Goto(p, f, l) ==
    /\ pc' = [pc EXCEPT ![p] = l]
    /\ fr' = [fr EXCEPT ![p] = f]
    /\ UNCHANGED <<last_result, check_count>>

\* The frame of a cycle that ended: the monitoring task drops it, the
\* handler of a request keeps it until it has responded.
Finished(p, f, how) ==
    IF p = "monitor" THEN [FrameIdle EXCEPT !.ended = how]
    ELSE [f EXCEPT !.lp = LpIdle, !.ex = ExIdle, !.sw = SwIdle, !.ended = how]

\* loop_all_positions returns res to its caller: monitoring_loop stores it
\* and goes on to the snapshot, trigger_loop stores it and responds with it.
Returned(p, f, res) ==
    /\ pc' = [pc EXCEPT ![p] = IF p = "monitor" THEN "snapshot" ELSE "respond"]
    /\ fr' = [fr EXCEPT ![p] = Finished(p, f, "returned")]
    /\ last_result' = res
    /\ UNCHANGED check_count

\* Raised without the except clause of monitoring_loop: the exception ends
\* the monitoring task (a faulty variant of Raised).
RaisedUncaught(p, f) ==
    /\ pc' = [pc EXCEPT ![p] = IF p = "monitor" THEN "crashed" ELSE "respond"]
    /\ fr' = [fr EXCEPT ![p] = Finished(p, f, "raised")]
    /\ UNCHANGED <<last_result, check_count>>

\* An exception leaves loop_all_positions: monitoring_loop records it and
\* sleeps, trigger_loop answers 500.
Raised(p, f) ==
    /\ pc' = [pc EXCEPT ![p] = IF p = "monitor" THEN "sleep" ELSE "respond"]
    /\ fr' = [fr EXCEPT ![p] = Finished(p, f, "raised")]
    /\ last_result' = IF p = "monitor" THEN [kind |-> "error"] ELSE last_result
    /\ UNCHANGED check_count

(***************************************************************************)
(* LeverageLooper.loop_all_positions, up to the per-position drivers.      *)
(***************************************************************************)
RECURSIVE InsertByLeverage(_, _)
InsertByLeverage(x, sorted) ==
    IF sorted = <<>> THEN <<x>>
    ELSE IF RLt(x[1], Head(sorted)[1]) THEN <<x>> \o sorted
    ELSE <<Head(sorted)>> \o InsertByLeverage(x, Tail(sorted))

\* The list left in the order of the venue (a faulty variant of SortByLeverage).
Unsorted(xs) == xs

\* sorted_loans.sort(key=lambda x: x[0]): ascending and stable.
RECURSIVE SortByLeverage(_)
SortByLeverage(xs) ==
    IF xs = <<>> THEN <<>>
    ELSE InsertByLeverage(xs[Len(xs)], SortByLeverage(SubSeq(xs, 1, Len(xs) - 1)))

\* loop_all_positions_fetch without the early return on an empty list (the
\* faulty variant of loop_all_positions_fetch).
loop_all_positions_fetch_on(p) ==
    /\ pc[p] = "lap_fetch"
    /\ \E a \in Answers :
        LET n == fr[p].fetches + 1
            f == [fr[p] EXCEPT !.fetches = n, !.stamp = n, !.loans = Rows(a)]
        IN  /\ faults' = Spend(a)
            /\ IF a = "raise" THEN Raised(p, fr[p])
               ELSE Goto(p, f, "lap_spot")
    /\ UNCHANGED <<venueLoans, price, feedDown, spot, trackerVars, calcVars>>

\* loans = await get_flexible_loan_ongoing_orders(); if not loans: return
\* the zero result.
loop_all_positions_fetch(p) ==
    /\ pc[p] = "lap_fetch"
    /\ \E a \in Answers :
        LET n == fr[p].fetches + 1
            f == [fr[p] EXCEPT !.fetches = n, !.stamp = n, !.loans = Rows(a)]
        IN  /\ faults' = Spend(a)
            /\ IF a = "raise" THEN Raised(p, fr[p])
               ELSE IF Rows(a) = <<>> THEN Returned(p, f, CycleResult(0))
               ELSE Goto(p, f, "lap_spot")
    /\ UNCHANGED <<venueLoans, price, feedDown, spot, trackerVars, calcVars>>

\* spot_value = await self.get_total_spot_value(): the value is only logged;
\* the balances request may fail.
loop_all_positions_spot(p) ==
    /\ pc[p] = "lap_spot"
    /\ \E a \in SpotBalancesAnswers :
        /\ faults' = Spend(a)
        /\ IF a = "raise" THEN Raised(p, fr[p])
           ELSE Goto(p, [fr[p] EXCEPT !.result = CycleResult(Len(fr[p].loans))],
                     "lap_leverage")
    /\ UNCHANGED <<venueLoans, price, feedDown, spot, trackerVars, calcVars>>

\* One turn of "for loan in loans: leverage = await get_current_leverage";
\* after the last one, the sort.
loop_all_positions_leverage(p) ==
    /\ pc[p] = "lap_leverage"
    /\ LET k == Len(fr[p].sorted_loans) + 1
           loan == fr[p].loans[k]
           keyed == Append(fr[p].sorted_loans, <<get_current_leverage(loan, Feed), loan>>)
       IN  IF k < Len(fr[p].loans)
           THEN Goto(p, [fr[p] EXCEPT !.sorted_loans = keyed], "lap_leverage")
           ELSE Goto(p, [fr[p] EXCEPT !.sorted_loans = SortByLeverage(keyed), !.idx = 1],
                     "lap_next")
    /\ UNCHANGED <<venueVars, trackerVars, calcVars>>

\* The next turn of "for leverage, loan in sorted_loans": loop_position is
\* called and runs to its while loop.
loop_position_call(p) ==
    /\ pc[p] = "lap_next"
    /\ fr[p].idx <= Len(fr[p].sorted_loans)
    /\ LET loan == fr[p].sorted_loans[fr[p].idx][2]
           cc == loan.collateralCoin
           lc == loan.loanCoin
           lp == [LpIdle EXCEPT !.coll_coin = cc, !.loan_coin = lc,
                     !.result = PositionResult(cc, lc, get_current_leverage(loan, Feed))]
       IN  Goto(p, [fr[p] EXCEPT !.lp = lp, !.driven = Append(@, <<cc, lc>>)], "lp_iter")
    /\ UNCHANGED <<venueVars, trackerVars, calcVars>>

(***************************************************************************)
(* LeverageLooper.loop_position.                                           *)
(***************************************************************************)
\* loop_position_iteration that leaves the loop without a word when the
\* position is gone (a faulty variant of loop_position_iteration).
loop_position_iteration_silent(p) ==
    /\ pc[p] = "lp_iter"
    /\ \E a \in Answers :
        LET n == fr[p].fetches + 1
            lp == fr[p].lp
            current_loan == FindLoan(Rows(a), lp.coll_coin, lp.loan_coin)
            current_leverage == get_current_leverage(current_loan, Feed)
            borrow_usd == calculate_borrow_amount(current_loan, Feed)[2]
            f == [fr[p] EXCEPT !.fetches = n, !.driver_stamp = n,
                     !.lp.loop_count = @ + 1, !.lp.current_loan = current_loan]
        IN  /\ faults' = Spend(a)
            /\ IF a = "raise" THEN Raised(p, fr[p])
               ELSE IF current_loan = NoLoan THEN Goto(p, f, "lp_final")
               ELSE IF RLt(borrow_usd, R(MIN_LOOP_USD))
               THEN Goto(p, [f EXCEPT !.lp.result.final_leverage = current_leverage],
                         "lp_final")
               ELSE Goto(p, [f EXCEPT !.ex = ExIdle, !.lp.cycles = @ + 1], "ex_borrow")
    /\ UNCHANGED <<venueLoans, price, feedDown, spot, trackerVars, calcVars>>

\* loop_position_iteration on the record loop_position was called with, its
\* fetch ignored (a faulty variant of loop_position_iteration).
loop_position_iteration_cached(p) ==
    /\ pc[p] = "lp_iter"
    /\ \E a \in Answers :
        LET n == fr[p].fetches + 1
            lp == fr[p].lp
            current_loan == fr[p].sorted_loans[fr[p].idx][2]
            current_leverage == get_current_leverage(current_loan, Feed)
            borrow_usd == calculate_borrow_amount(current_loan, Feed)[2]
            f == [fr[p] EXCEPT !.fetches = n, !.driver_stamp = n,
                     !.lp.loop_count = @ + 1, !.lp.current_loan = current_loan]
        IN  /\ faults' = Spend(a)
            /\ IF a = "raise" THEN Raised(p, fr[p])
               ELSE IF RLt(borrow_usd, R(MIN_LOOP_USD))
               THEN Goto(p, [f EXCEPT !.lp.result.final_leverage = current_leverage],
                         "lp_final")
               ELSE Goto(p, [f EXCEPT !.ex = ExIdle, !.lp.cycles = @ + 1], "ex_borrow")
    /\ UNCHANGED <<venueLoans, price, feedDown, spot, trackerVars, calcVars>>

\* One turn of the while loop up to the call of execute_loop: the position
\* is fetched again, and the loop is left when it is gone or when its borrow
\* capacity is below MIN_LOOP_USD.
loop_position_iteration(p) ==
    /\ pc[p] = "lp_iter"
    /\ \E a \in Answers :
        LET n == fr[p].fetches + 1
            lp == fr[p].lp
            current_loan == FindLoan(Rows(a), lp.coll_coin, lp.loan_coin)
            current_leverage == get_current_leverage(current_loan, Feed)
            borrow_usd == calculate_borrow_amount(current_loan, Feed)[2]
            f == [fr[p] EXCEPT !.fetches = n, !.driver_stamp = n,
                     !.lp.loop_count = @ + 1, !.lp.current_loan = current_loan]
        IN  /\ faults' = Spend(a)
            /\ IF a = "raise" THEN Raised(p, fr[p])
               ELSE IF current_loan = NoLoan
               THEN Goto(p, [f EXCEPT !.lp.result.errors =
                                 Append(@, "Position no longer exists")], "lp_final")
               ELSE IF RLt(borrow_usd, R(MIN_LOOP_USD))
               THEN Goto(p, [f EXCEPT !.lp.result.final_leverage = current_leverage],
                         "lp_final")
               ELSE Goto(p, [f EXCEPT !.ex = ExIdle, !.lp.cycles = @ + 1], "ex_borrow")
    /\ UNCHANGED <<venueLoans, price, feedDown, spot, trackerVars, calcVars>>

\* CycleDone with a loop that goes on after a failure (a faulty variant of
\* CycleDone).
CycleDoneRetry(p, f, res) ==
    LET lp == IF res.success
              THEN [f.lp EXCEPT !.result.loops_executed = @ + 1,
                       !.result.total_borrowed_usd = RAdd(@, res.borrowed_usd),
                       !.result.total_added_usd = RAdd(@, res.added_usd)]
              ELSE [f.lp EXCEPT !.result.errors = Append(@, res.error)]
    IN  Goto(p, [f EXCEPT !.lp = lp, !.ex.result = res],
             IF lp.loop_count < max_loops THEN "lp_iter" ELSE "lp_final")

\* CycleDone with a loop that goes on after every success (a faulty variant of
\* CycleDone).
CycleDoneUncapped(p, f, res) ==
    LET lp == IF res.success
              THEN [f.lp EXCEPT !.result.loops_executed = @ + 1,
                       !.result.total_borrowed_usd = RAdd(@, res.borrowed_usd),
                       !.result.total_added_usd = RAdd(@, res.added_usd)]
              ELSE [f.lp EXCEPT !.result.errors = Append(@, res.error)]
    IN  Goto(p, [f EXCEPT !.lp = lp, !.ex.result = res],
             IF res.success THEN "lp_iter" ELSE "lp_final")

\* execute_loop returned res: the success is counted and the loop goes on
\* while loop_count < max_loops, a failure is recorded and ends the loop.
CycleDone(p, f, res) ==
    LET lp == IF res.success
              THEN [f.lp EXCEPT !.result.loops_executed = @ + 1,
                       !.result.total_borrowed_usd = RAdd(@, res.borrowed_usd),
                       !.result.total_added_usd = RAdd(@, res.added_usd)]
              ELSE [f.lp EXCEPT !.result.errors = Append(@, res.error)]
    IN  Goto(p, [f EXCEPT !.lp = lp, !.ex.result = res],
             IF res.success /\ lp.loop_count < max_loops THEN "lp_iter" ELSE "lp_final")

\* loop_position_final that fetches the list and leaves final_leverage as
\* the loop left it (a faulty variant of loop_position_final).
loop_position_final_unread(p) ==
    /\ pc[p] = "lp_final"
    /\ \E a \in Answers :
        LET n == fr[p].fetches + 1
            lp == fr[p].lp
            loop_result == lp.result
            looped == loop_result.loops_executed > 0
            result == [fr[p].result EXCEPT
                          !.details = Append(@, loop_result),
                          !.positions_looped = IF looped THEN @ + 1 ELSE @,
                          !.total_loops = IF looped THEN @ + loop_result.loops_executed ELSE @,
                          !.total_borrowed_usd =
                              IF looped THEN RAdd(@, loop_result.total_borrowed_usd) ELSE @,
                          !.total_added_usd =
                              IF looped THEN RAdd(@, loop_result.total_added_usd) ELSE @]
        IN  /\ faults' = Spend(a)
            /\ IF a = "raise" THEN Raised(p, fr[p])
               ELSE Goto(p, [fr[p] EXCEPT !.fetches = n, !.driver_stamp = n,
                                !.result = result, !.idx = @ + 1,
                                !.lp = LpIdle, !.ex = ExIdle], "lap_next")
    /\ UNCHANGED <<venueLoans, price, feedDown, spot, trackerVars, calcVars>>

\* The final re-read of the position, the return to loop_all_positions and
\* its bookkeeping of the result.
loop_position_final(p) ==
    /\ pc[p] = "lp_final"
    /\ \E a \in Answers :
        LET n == fr[p].fetches + 1
            lp == fr[p].lp
            l == FindLoan(Rows(a), lp.coll_coin, lp.loan_coin)
            loop_result == IF l = NoLoan THEN lp.result
                           ELSE [lp.result EXCEPT
                                    !.final_leverage = get_current_leverage(l, Feed)]
            looped == loop_result.loops_executed > 0
            result == [fr[p].result EXCEPT
                          !.details = Append(@, loop_result),
                          !.positions_looped = IF looped THEN @ + 1 ELSE @,
                          !.total_loops = IF looped THEN @ + loop_result.loops_executed ELSE @,
                          !.total_borrowed_usd =
                              IF looped THEN RAdd(@, loop_result.total_borrowed_usd) ELSE @,
                          !.total_added_usd =
                              IF looped THEN RAdd(@, loop_result.total_added_usd) ELSE @]
        IN  /\ faults' = Spend(a)
            /\ IF a = "raise" THEN Raised(p, fr[p])
               ELSE Goto(p, [fr[p] EXCEPT !.fetches = n, !.driver_stamp = n,
                                !.result = result, !.idx = @ + 1,
                                !.lp = LpIdle, !.ex = ExIdle], "lap_next")
    /\ UNCHANGED <<venueLoans, price, feedDown, spot, trackerVars, calcVars>>

(***************************************************************************)
(* LeverageLooper.execute_loop: one borrow, convert, deposit cycle.        *)
(***************************************************************************)
\* Step 1: the capacity is computed again and the borrow is requested.  The
\* code keeps no answer of the venue: a request that did not raise counts
\* as a borrow.
execute_loop_borrow(p) ==
    /\ pc[p] = "ex_borrow"
    /\ LET f == fr[p]
           loan == f.lp.current_loan
           cc == loan.collateralCoin
           lc == loan.loanCoin
           ba == calculate_borrow_amount(loan, Feed)
       IN  IF RLt(ba[2], R(MIN_LOOP_USD))
           THEN /\ CycleDone(p, f, LoopOutcome(FALSE, ZeroF, ZeroF, "Borrow amount too small"))
                /\ UNCHANGED <<venueLoans, faults>>
           ELSE \E a \in Answers :
                /\ faults' = Spend(a)
                /\ venueLoans' = IF a = "ok" THEN Borrowed(venueLoans, cc, lc, ba[1])
                                 ELSE venueLoans
                /\ IF a = "raise"
                   THEN CycleDone(p, [f EXCEPT !.calls = @ \cup {"borrow"}],
                                  LoopOutcome(FALSE, ZeroF, ZeroF, "Borrow failed"))
                   ELSE Goto(p, [f EXCEPT !.calls = @ \cup {"borrow"},
                                    !.ex.result.borrowed_usd = ba[2],
                                    !.ex.borrow_amount = ba[1],
                                    !.ex.add_amount = IF cc = lc THEN ba[1] ELSE ZeroF,
                                    !.ex.accepted = (a = "ok")],
                             IF cc = lc THEN "ex_deposit" ELSE "ex_convert")
    /\ UNCHANGED <<price, feedDown, spot, trackerVars, calcVars>>

\* What the cycle reports when it ends after its borrow with error e.
Failed(f, e) == [f.ex.result EXCEPT !.error = e]

\* execute_loop_convert that converts the borrowed amount whatever the wallet
\* holds (a faulty variant of execute_loop_convert).
execute_loop_convert_unclamped(p) ==
    /\ pc[p] = "ex_convert"
    /\ \E b \in Replies, t \in Replies :
        LET f == fr[p]
            cc == f.lp.current_loan.collateralCoin
            lc == f.lp.current_loan.loanCoin
            loan_balance == IF b = "ok" THEN spot[lc] ELSE ZeroF
            convert_amount == IF b = "ok" THEN f.ex.borrow_amount ELSE ZeroF
            convert_usd == RMul(convert_amount, GetPrice(lc, Feed))
            market == RLe(R(5), convert_usd)
            g == [f EXCEPT !.ex.convert_amount = convert_amount,
                     !.calls = @ \cup {IF market THEN "trade" ELSE "convert"}]
        IN  IF RLt(convert_amount, <<1, 100>>)
            THEN /\ t = "ok"
                 /\ faults' = Spend(b)
                 /\ CycleDone(p, f, Failed(f, "Insufficient balance to convert"))
            ELSE /\ faults' = Spend(t)
                 /\ IF market
                    THEN IF t = "raise" THEN Goto(p, g, "ex_fallback")
                         ELSE IF lc # "USDT" /\ cc # "USDT"
                         THEN Goto(p, [g EXCEPT !.ex.usdt_received =
                                           RMul(convert_amount, Rate(lc))], "ex_buy")
                         ELSE IF lc = "USDT"
                         THEN Goto(p, [g EXCEPT !.ex.add_amount =
                                           RDiv(convert_amount, Rate(cc))], "ex_deposit")
                         ELSE Goto(p, [g EXCEPT !.ex.add_amount =
                                           RMul(convert_amount, Rate(lc))], "ex_deposit")
                    ELSE IF t = "raise" THEN CycleDone(p, g, Failed(g, "Convert failed"))
                         ELSE Goto(p, [g EXCEPT !.ex.add_amount =
                                           RDiv(RMul(convert_amount, Rate(lc)), Rate(cc))],
                                   "ex_deposit")
    /\ UNCHANGED <<venueLoans, price, feedDown, spot, trackerVars, calcVars>>

\* Step 2 for different coins, up to the first conversion request: the
\* convertible amount, then by its USD value the Convert API or a market
\* order.
execute_loop_convert(p) ==
    /\ pc[p] = "ex_convert"
    /\ \E b \in Replies, t \in Replies :
        LET f == fr[p]
            cc == f.lp.current_loan.collateralCoin
            lc == f.lp.current_loan.loanCoin
            loan_balance == IF b = "ok" THEN spot[lc] ELSE ZeroF
            convert_amount == RMin(f.ex.borrow_amount, RMul(loan_balance, <<99, 100>>))
            convert_usd == RMul(convert_amount, GetPrice(lc, Feed))
            market == RLe(R(5), convert_usd)
            g == [f EXCEPT !.ex.convert_amount = convert_amount,
                     !.calls = @ \cup {IF market THEN "trade" ELSE "convert"}]
        IN  IF RLt(convert_amount, <<1, 100>>)
            THEN /\ t = "ok"
                 /\ faults' = Spend(b)
                 /\ CycleDone(p, f, Failed(f, "Insufficient balance to convert"))
            ELSE /\ faults' = Spend(t)
                 /\ IF market
                    THEN IF t = "raise" THEN Goto(p, g, "ex_fallback")
                         ELSE IF lc # "USDT" /\ cc # "USDT"
                         THEN Goto(p, [g EXCEPT !.ex.usdt_received =
                                           RMul(convert_amount, Rate(lc))], "ex_buy")
                         ELSE IF lc = "USDT"
                         THEN Goto(p, [g EXCEPT !.ex.add_amount =
                                           RDiv(convert_amount, Rate(cc))], "ex_deposit")
                         ELSE Goto(p, [g EXCEPT !.ex.add_amount =
                                           RMul(convert_amount, Rate(lc))], "ex_deposit")
                    ELSE IF t = "raise" THEN CycleDone(p, g, Failed(g, "Convert failed"))
                         ELSE Goto(p, [g EXCEPT !.ex.add_amount =
                                           RDiv(RMul(convert_amount, Rate(lc)), Rate(cc))],
                                   "ex_deposit")
    /\ UNCHANGED <<venueLoans, price, feedDown, spot, trackerVars, calcVars>>

\* The second leg of the two-leg route: market_buy with the sale's proceeds.
execute_loop_buy(p) ==
    /\ pc[p] = "ex_buy"
    /\ \E t \in Replies :
        LET f == [fr[p] EXCEPT !.calls = @ \cup {"trade"}]
            cc == f.lp.current_loan.collateralCoin
        IN  /\ faults' = Spend(t)
            /\ IF t = "raise" THEN Goto(p, f, "ex_fallback")
               ELSE Goto(p, [f EXCEPT !.ex.add_amount = RDiv(f.ex.usdt_received, Rate(cc))],
                         "ex_deposit")
    /\ UNCHANGED <<venueLoans, price, feedDown, spot, trackerVars, calcVars>>

\* execute_loop_fallback that asks for the conversion again when it failed (a
\* faulty variant of execute_loop_fallback).
execute_loop_fallback_retry(p) ==
    /\ pc[p] = "ex_fallback"
    /\ \E t \in Replies :
        LET f == [fr[p] EXCEPT !.calls = @ \cup {"convert"}]
            cc == f.lp.current_loan.collateralCoin
            lc == f.lp.current_loan.loanCoin
        IN  /\ faults' = Spend(t)
            /\ IF t = "raise" THEN Goto(p, f, "ex_fallback")
               ELSE Goto(p, [f EXCEPT !.ex.add_amount =
                                 RDiv(RMul(f.ex.convert_amount, Rate(lc)), Rate(cc))],
                         "ex_deposit")
    /\ UNCHANGED <<venueLoans, price, feedDown, spot, trackerVars, calcVars>>

\* except Exception: convert_asset(loan_coin, coll_coin, convert_amount).
execute_loop_fallback(p) ==
    /\ pc[p] = "ex_fallback"
    /\ \E t \in Replies :
        LET f == [fr[p] EXCEPT !.calls = @ \cup {"convert"}]
            cc == f.lp.current_loan.collateralCoin
            lc == f.lp.current_loan.loanCoin
        IN  /\ faults' = Spend(t)
            /\ IF t = "raise" THEN CycleDone(p, f, Failed(f, "Convert failed"))
               ELSE Goto(p, [f EXCEPT !.ex.add_amount =
                                 RDiv(RMul(f.ex.convert_amount, Rate(lc)), Rate(cc))],
                         "ex_deposit")
    /\ UNCHANGED <<venueLoans, price, feedDown, spot, trackerVars, calcVars>>

\* Step 3: the converted amount is added as collateral.
execute_loop_deposit(p) ==
    /\ pc[p] = "ex_deposit"
    /\ LET f == fr[p]
           cc == f.lp.current_loan.collateralCoin
           add_usd == RMul(f.ex.add_amount, GetPrice(cc, Feed))
       IN  IF RLt(f.ex.add_amount, <<1, 1000>>)
           THEN /\ CycleDone(p, f, Failed(f, "Converted amount too small to add as collateral"))
                /\ UNCHANGED faults
           ELSE \E a \in Answers :
                /\ faults' = Spend(a)
                /\ IF a = "raise"
                   THEN CycleDone(p, [f EXCEPT !.calls = @ \cup {"adjust"}],
                                  Failed(f, "Add collateral failed"))
                   ELSE CycleDone(p, [f EXCEPT !.calls = @ \cup {"adjust"}],
                                  [f.ex.result EXCEPT !.added_usd = add_usd,
                                                      !.success = TRUE])
    /\ UNCHANGED <<venueLoans, price, feedDown, spot, trackerVars, calcVars>>

(***************************************************************************)
(* LeverageLooper.loop_all_positions after the drivers, and                *)
(* sweep_spot_to_collateral.                                               *)
(***************************************************************************)
\* The order in which balances.items() yields the wallet's assets.
AssetOrder == <<"BTC", "ETH", "LDBTC", "USDT">>

\* asset.startswith('LD')
IsEarnToken(asset) == asset \in {"LDBTC"}

\* coll_to_positions[coin]: the positions of the list with that collateral,
\* in the list's order.
RECURSIVE PositionsOf(_, _)
PositionsOf(loans, coin) ==
    IF loans = <<>> THEN <<>>
    ELSE (IF Head(loans).collateralCoin = coin THEN <<Head(loans)>> ELSE <<>>)
         \o PositionsOf(Tail(loans), coin)

\* usdt_available = max(0, usdt_balance - MIN_RESERVE_USD)
UsdtAvailable(balances) ==
    IF RLt(R(MIN_RESERVE_USD), balances["USDT"])
    THEN RSub(balances["USDT"], R(MIN_RESERVE_USD)) ELSE ZeroF

\* Whether the USDT part of the sweep has a deposit to request.
UsdtToSweep(loans, balances) ==
    /\ RLe(R(1), UsdtAvailable(balances))
    /\ PositionsOf(loans, "USDT") # <<>>
    /\ RLe(<<1, 2>>, RDiv(UsdtAvailable(balances), R(Len(PositionsOf(loans, "USDT")))))

\* The sweep called on the list the cycle fetched at its start (a faulty variant
\* of loop_all_positions_refresh).
loop_all_positions_stale(p) ==
    /\ pc[p] = "lap_next"
    /\ fr[p].idx > Len(fr[p].sorted_loans)
    /\ Goto(p, [fr[p] EXCEPT !.sweeps = @ + 1, !.sweep_stamp = fr[p].stamp, !.sw = SwIdle],
            "sweep")
    /\ UNCHANGED <<venueVars, trackerVars, calcVars>>

\* loans = await get_flexible_loan_ongoing_orders()  # Refresh
\* sweep_result = await self.sweep_spot_to_collateral(loans)
loop_all_positions_refresh(p) ==
    /\ pc[p] = "lap_next"
    /\ fr[p].idx > Len(fr[p].sorted_loans)
    /\ \E a \in Answers :
        LET n == fr[p].fetches + 1
        IN  /\ faults' = Spend(a)
            /\ IF a = "raise" THEN Raised(p, fr[p])
               ELSE Goto(p, [fr[p] EXCEPT !.fetches = n, !.stamp = n, !.loans = Rows(a),
                                !.sweeps = @ + 1, !.sweep_stamp = n, !.sw = SwIdle],
                         "sweep")
    /\ UNCHANGED <<venueLoans, price, feedDown, spot, trackerVars, calcVars>>

\* balances = await self.client.get_all_spot_balances()
sweep_balances(p) ==
    /\ pc[p] = "sweep"
    /\ \E a \in SpotBalancesAnswers :
        /\ faults' = Spend(a)
        /\ IF a = "raise" THEN Raised(p, fr[p])
           ELSE Goto(p, [fr[p] EXCEPT !.sw.balances = get_all_spot_balances, !.sw.i = 1],
                     "sweep_asset")
    /\ UNCHANGED <<venueLoans, price, feedDown, spot, trackerVars, calcVars>>

\* sweep_spot_to_collateral returned: result['swept_usd'] is set and the
\* final spot check is next.
SweepDone(p, f) ==
    Goto(p, [f EXCEPT !.result.swept_usd = f.sw.result.swept_usd], "lap_finish")

\* sweep_asset that deposits into the last position with the asset as
\* collateral (a faulty variant of sweep_asset).
sweep_asset_last(p) ==
    /\ pc[p] = "sweep_asset"
    /\ \E a \in Answers :
        LET f == fr[p]
            asset == AssetOrder[f.sw.i]
            amount == f.sw.balances[asset]
            positions == PositionsOf(f.loans, asset)
            usd_value == RMul(amount, GetPrice(asset, Feed))
            skipped == \/ IsEarnToken(asset) \/ asset = "USDT"
                       \/ positions = <<>>
                       \/ RLt(usd_value, <<1, 10>>)
            add_amount == RMul(amount, <<99, 100>>)
            swept == [f.sw.result EXCEPT
                         !.swept_usd = RAdd(@, usd_value),
                         !.positions_swept = @ + 1,
                         !.details = Append(@, [asset |-> asset, amount |-> add_amount,
                                                usd |-> usd_value,
                                                position |-> <<asset, positions[Len(positions)].loanCoin>>])]
            g == IF skipped THEN [f EXCEPT !.sw.i = @ + 1]
                 ELSE IF a = "raise" THEN [f EXCEPT !.sw.i = @ + 1, !.calls = @ \cup {"adjust"}]
                 ELSE [f EXCEPT !.sw.i = @ + 1, !.calls = @ \cup {"adjust"}, !.sw.result = swept]
        IN  /\ faults' = IF skipped THEN faults ELSE Spend(a)
            /\ IF g.sw.i <= Len(AssetOrder) THEN Goto(p, g, "sweep_asset")
               ELSE IF UsdtToSweep(g.loans, g.sw.balances)
               THEN Goto(p, [g EXCEPT !.sw.j = 1], "sweep_usdt")
               ELSE SweepDone(p, g)
    /\ UNCHANGED <<venueLoans, price, feedDown, spot, trackerVars, calcVars>>

\* One turn of "for asset, amount in balances.items()".
sweep_asset(p) ==
    /\ pc[p] = "sweep_asset"
    /\ \E a \in Answers :
        LET f == fr[p]
            asset == AssetOrder[f.sw.i]
            amount == f.sw.balances[asset]
            positions == PositionsOf(f.loans, asset)
            usd_value == RMul(amount, GetPrice(asset, Feed))
            skipped == \/ IsEarnToken(asset) \/ asset = "USDT"
                       \/ positions = <<>>
                       \/ RLt(usd_value, <<1, 10>>)
            add_amount == RMul(amount, <<99, 100>>)
            swept == [f.sw.result EXCEPT
                         !.swept_usd = RAdd(@, usd_value),
                         !.positions_swept = @ + 1,
                         !.details = Append(@, [asset |-> asset, amount |-> add_amount,
                                                usd |-> usd_value,
                                                position |-> <<asset, positions[1].loanCoin>>])]
            g == IF skipped THEN [f EXCEPT !.sw.i = @ + 1]
                 ELSE IF a = "raise" THEN [f EXCEPT !.sw.i = @ + 1, !.calls = @ \cup {"adjust"}]
                 ELSE [f EXCEPT !.sw.i = @ + 1, !.calls = @ \cup {"adjust"}, !.sw.result = swept]
        IN  /\ faults' = IF skipped THEN faults ELSE Spend(a)
            /\ IF g.sw.i <= Len(AssetOrder) THEN Goto(p, g, "sweep_asset")
               ELSE IF UsdtToSweep(g.loans, g.sw.balances)
               THEN Goto(p, [g EXCEPT !.sw.j = 1], "sweep_usdt")
               ELSE SweepDone(p, g)
    /\ UNCHANGED <<venueLoans, price, feedDown, spot, trackerVars, calcVars>>

\* One turn of "for loan in usdt_positions".
sweep_usdt(p) ==
    /\ pc[p] = "sweep_usdt"
    /\ \E a \in Answers :
        LET f == fr[p]
            usdt_positions == PositionsOf(f.loans, "USDT")
            loan_coin == usdt_positions[f.sw.j].loanCoin
            add_amount == RDiv(UsdtAvailable(f.sw.balances), R(Len(usdt_positions)))
            attempt == [position |-> <<"USDT", loan_coin>>, amount |-> add_amount,
                        sent |-> FormatAmount(add_amount)]
            swept == [f.sw.result EXCEPT
                         !.swept_usd = RAdd(@, add_amount),
                         !.positions_swept = @ + 1,
                         !.details = Append(@, [asset |-> "USDT", amount |-> add_amount,
                                                usd |-> add_amount,
                                                position |-> <<"USDT", loan_coin>>])]
            h == [f EXCEPT !.sw.j = @ + 1, !.calls = @ \cup {"adjust"},
                           !.sw.deposits = Append(@, attempt)]
            g == IF a = "raise" THEN h ELSE [h EXCEPT !.sw.result = swept]
        IN  /\ faults' = Spend(a)
            /\ IF g.sw.j <= Len(usdt_positions) THEN Goto(p, g, "sweep_usdt")
               ELSE SweepDone(p, g)
    /\ UNCHANGED <<venueLoans, price, feedDown, spot, trackerVars, calcVars>>

\* final_spot = await self.get_total_spot_value(); return result
loop_all_positions_finish(p) ==
    /\ pc[p] = "lap_finish"
    /\ \E a \in SpotBalancesAnswers :
        /\ faults' = Spend(a)
        /\ IF a = "raise" THEN Raised(p, fr[p])
           ELSE Returned(p, fr[p], fr[p].result)
    /\ UNCHANGED <<venueLoans, price, feedDown, spot, trackerVars, calcVars>>

(***************************************************************************)
(* ProfitTracker.                                                          *)
(***************************************************************************)
None == <<>>

calculate_position_equity(loan, feed) ==
    LET coll_usd == RMul(loan.collateralAmount, GetPrice(loan.collateralCoin, feed))
        debt_usd == RMul(loan.totalDebt, GetPrice(loan.loanCoin, feed))
        equity_usd == RSub(coll_usd, debt_usd)
    IN  [collateral_usd |-> coll_usd, debt_usd |-> debt_usd, equity_usd |-> equity_usd,
         leverage |-> IF RLt(ZeroF, equity_usd) THEN RDiv(coll_usd, equity_usd) ELSE ZeroF]

RECURSIVE SumOver(_, _, _)
SumOver(loans, feed, field) ==
    IF loans = <<>> THEN ZeroF
    ELSE RAdd(calculate_position_equity(Head(loans), feed)[field],
              SumOver(Tail(loans), feed, field))

\* The value of the wallet, Simple Earn tokens left out.
RECURSIVE SpotValue(_, _, _)
SpotValue(balances, feed, i) ==
    IF i > Len(AssetOrder) THEN ZeroF
    ELSE LET asset == AssetOrder[i]
         IN  RAdd(IF IsEarnToken(asset) THEN ZeroF
                  ELSE RMul(balances[asset], GetPrice(asset, feed)),
                  SpotValue(balances, feed, i + 1))

\* balances_read: whether get_all_spot_balances answered.
calculate_total_equity(loans, balances_read, feed) ==
    LET total_collateral == SumOver(loans, feed, "collateral_usd")
        total_debt == SumOver(loans, feed, "debt_usd")
        spot_value == IF balances_read THEN SpotValue(get_all_spot_balances, feed, 1)
                      ELSE ZeroF
    IN  [total_equity_usd |-> RAdd(RSub(total_collateral, total_debt), spot_value),
         total_collateral_usd |-> total_collateral,
         total_debt_usd |-> total_debt,
         spot_value_usd |-> spot_value,
         timestamp |-> now + 1]

\* record_snapshot after calculate_total_equity: the new starting equity and
\* the entry appended to the history.
\* The baseline taken from every snapshot (a faulty variant of Baseline).
BaselineLatest(start, equity_data) == <<equity_data.total_equity_usd>>

Baseline(start, equity_data) ==
    IF start = None THEN <<equity_data.total_equity_usd>> ELSE start

BaselineTimestamp(start, start_ts, equity_data) ==
    IF start = None THEN <<equity_data.timestamp>> ELSE start_ts

\* The entry record_snapshot appends to the history.
Snapshot(start, equity_data) ==
    LET starting_equity_usd == Baseline(start, equity_data)[1]
        pnl_absolute == RSub(equity_data.total_equity_usd, starting_equity_usd)
    IN  [timestamp |-> equity_data.timestamp,
         total_equity_usd |-> equity_data.total_equity_usd,
         total_collateral_usd |-> equity_data.total_collateral_usd,
         total_debt_usd |-> equity_data.total_debt_usd,
         spot_value_usd |-> equity_data.spot_value_usd,
         pnl_absolute_usd |-> pnl_absolute,
         pnl_percent |-> IF RLt(ZeroF, starting_equity_usd)
                         THEN RMul(RDiv(pnl_absolute, starting_equity_usd), R(100))
                         ELSE ZeroF]

\* pnl_since_last left at 0.0 (a faulty variant of PnlSinceLast).
PnlSinceLastZero(h, current_equity) == ZeroF

\* pnl_since_last: against the last entry of the history, 0.0 without one.
PnlSinceLast(h, current_equity) ==
    IF h = <<>> THEN ZeroF ELSE RSub(current_equity, h[Len(h)].total_equity_usd)

\* The snapshot record_snapshot returns, for the baseline and the history
\* it found.
record_snapshot(start, start_ts, h, equity_data) ==
    LET entry == Snapshot(start, equity_data)
    IN  [timestamp |-> equity_data.timestamp,
         total_equity_usd |-> equity_data.total_equity_usd,
         total_collateral_usd |-> equity_data.total_collateral_usd,
         total_debt_usd |-> equity_data.total_debt_usd,
         spot_value_usd |-> equity_data.spot_value_usd,
         starting_equity_usd |-> Baseline(start, equity_data)[1],
         starting_timestamp |-> BaselineTimestamp(start, start_ts, equity_data)[1],
         pnl_absolute_usd |-> entry.pnl_absolute_usd,
         pnl_percent |-> entry.pnl_percent,
         pnl_since_last_usd |-> PnlSinceLast(h, equity_data.total_equity_usd)]

\* The entry put in front of the history (a faulty variant of Appended).
Prepended(h, entry) == <<entry>> \o h

\* self.history.append(...)
Appended(h, entry) == Append(h, entry)

\* The first HISTORY_CAP entries kept (a faulty variant of SavedHistory).
SavedOldest(h) == IF Len(h) > HISTORY_CAP THEN SubSeq(h, 1, HISTORY_CAP) ELSE h

\* self.history[-1000:]
SavedHistory(h) ==
    IF Len(h) > HISTORY_CAP THEN SubSeq(h, Len(h) - HISTORY_CAP + 1, Len(h)) ELSE h

\* The data file: absent, written by a save, or cut short by a save that
\* failed after it had opened the file; saved tells whether the last save of
\* this tracker succeeded.
NoFile ==
    [state |-> "absent", starting_equity |-> None, starting_timestamp |-> None,
     history |-> <<>>, saved |-> FALSE]

\* How a write of the data file can end.
WriteOutcomes == {"ok"} \cup (IF diskFaults > 0 THEN {"unwritten", "truncated"} ELSE {})

\* _save_history: the file after a save that ended as w; an exception is
\* logged and the caller goes on.
_save_history(w, start, start_ts, h) ==
    IF w = "ok"
    THEN [state |-> "written", starting_equity |-> start, starting_timestamp |-> start_ts,
          history |-> SavedHistory(h), saved |-> TRUE]
    ELSE IF w = "truncated" THEN [NoFile EXCEPT !.state = "truncated"]
    ELSE [file EXCEPT !.saved = FALSE]

\* How a read of the data file can end.
ReadOutcomes == {"ok"} \cup (IF diskFaults > 0 THEN {"unreadable"} ELSE {})

\* _load_history without its except clause: the exception of a failed load
\* leaves the constructor (a faulty variant of _load_history).
_load_history_uncaught(f, r) ==
    IF f.state = "absent"
    THEN [history |-> <<>>, starting_equity |-> None, starting_timestamp |-> None,
          raised |-> FALSE]
    ELSE IF f.state = "written" /\ r = "ok"
    THEN [history |-> f.history, starting_equity |-> f.starting_equity,
          starting_timestamp |-> f.starting_timestamp, raised |-> FALSE]
    ELSE [history |-> <<>>, starting_equity |-> None, starting_timestamp |-> None,
          raised |-> TRUE]

\* _load_history on the data file f when its read ends as r: the tracker's
\* fields after it, and whether an exception leaves it.  A file that is
\* absent is not read; one that cannot be read or parsed is logged and
\* leaves the empty history without baseline that __init__ had set.
_load_history(f, r) ==
    IF f.state = "absent"
    THEN [history |-> <<>>, starting_equity |-> None, starting_timestamp |-> None,
          raised |-> FALSE]
    ELSE IF f.state = "written" /\ r = "ok"
    THEN [history |-> f.history, starting_equity |-> f.starting_equity,
          starting_timestamp |-> f.starting_timestamp, raised |-> FALSE]
    ELSE [history |-> <<>>, starting_equity |-> None, starting_timestamp |-> None,
          raised |-> FALSE]

\* reset_tracking with the baseline left in place (a faulty variant of
\* reset_tracking).
reset_tracking_history_only(w) ==
    /\ history' = <<>>
    /\ UNCHANGED <<starting_equity, starting_timestamp>>
    /\ file' = _save_history(w, starting_equity, starting_timestamp, <<>>)
    /\ diskFaults' = IF w = "ok" THEN diskFaults ELSE diskFaults - 1

reset_tracking(w) ==
    /\ history' = <<>>
    /\ starting_equity' = None
    /\ starting_timestamp' = None
    /\ file' = _save_history(w, None, None, <<>>)
    /\ diskFaults' = IF w = "ok" THEN diskFaults ELSE diskFaults - 1

\* RecordSnapshot with the save ahead of the append (a faulty variant of
\* RecordSnapshot).
RecordSnapshotSaveFirst(w, equity_data) ==
    LET start == Baseline(starting_equity, equity_data)
        start_ts == BaselineTimestamp(starting_equity, starting_timestamp, equity_data)
        h == Appended(history, Snapshot(starting_equity, equity_data))
    IN  /\ starting_equity' = start
        /\ starting_timestamp' = start_ts
        /\ history' = h
        /\ file' = _save_history(w, start, start_ts, history)
        /\ diskFaults' = IF w = "ok" THEN diskFaults ELSE diskFaults - 1
        /\ now' = equity_data.timestamp

\* record_snapshot once calculate_total_equity has returned equity_data:
\* the baseline is set if there is none, the entry is appended, the file is
\* saved.  No await lies between them, so no other task runs in between.
RecordSnapshot(w, equity_data) ==
    LET start == Baseline(starting_equity, equity_data)
        start_ts == BaselineTimestamp(starting_equity, starting_timestamp, equity_data)
        h == Appended(history, Snapshot(starting_equity, equity_data))
    IN  /\ starting_equity' = start
        /\ starting_timestamp' = start_ts
        /\ history' = h
        /\ file' = _save_history(w, start, start_ts, h)
        /\ diskFaults' = IF w = "ok" THEN diskFaults ELSE diskFaults - 1
        /\ now' = equity_data.timestamp

(***************************************************************************)
(* main.py: the monitoring task, POST /loop and the shutdown.              *)
(***************************************************************************)
\* The monitoring task starts a cycle: when it first runs and when its sleep
\* of 600 s is over.
monitoring_loop_cycle ==
    /\ pc["monitor"] \in {"created", "sleep"}
    /\ check_count < MaxChecks
    /\ check_count' = check_count + 1
    /\ pc' = [pc EXCEPT !["monitor"] = "lap_fetch"]
    /\ fr' = [fr EXCEPT !["monitor"] = FrameIdle]
    /\ UNCHANGED <<last_result, venueVars, trackerVars, calcVars>>

\* record_snapshot up to the answer of the list fetch of
\* calculate_total_equity, at the startup ("startup") and after a cycle
\* ("snapshot"); its caller logs an exception.
record_snapshot_fetch ==
    /\ pc["monitor"] \in {"startup", "snapshot"}
    /\ \E a \in Answers :
        /\ faults' = Spend(a)
        /\ IF a = "raise"
           THEN Goto("monitor", fr["monitor"],
                     IF pc["monitor"] = "startup" THEN "created" ELSE "sleep")
           ELSE Goto("monitor", [fr["monitor"] EXCEPT !.snap = Rows(a)],
                     IF pc["monitor"] = "startup" THEN "startup_spot" ELSE "snapshot_spot")
    /\ UNCHANGED <<venueLoans, price, feedDown, spot, trackerVars, calcVars>>

\* The rest of record_snapshot: the wallet is read, the baseline is set if
\* there is none, the entry is appended.
record_snapshot_record ==
    /\ pc["monitor"] \in {"startup_spot", "snapshot_spot"}
    /\ \E b \in SpotBalancesAnswers, w \in WriteOutcomes :
        LET equity_data == calculate_total_equity(fr["monitor"].snap, b = "ok", Feed)
        IN  /\ faults' = Spend(b)
            /\ RecordSnapshot(w, equity_data)
    /\ Goto("monitor", [fr["monitor"] EXCEPT !.snap = <<>>],
            IF pc["monitor"] = "startup_spot" THEN "created" ELSE "sleep")
    /\ UNCHANGED <<venueLoans, price, feedDown, spot, calcVars, handlerVars>>

\* The service serves requests and can be shut down once lifespan has
\* created the monitoring task.
Serving == pc["monitor"] \notin {"off", "startup", "startup_spot"}

\* POST /loop.
trigger_loop ==
    /\ Serving
    /\ pc["manual"] = "idle"
    /\ Goto("manual", FrameIdle, "lap_fetch")
    /\ UNCHANGED <<venueVars, trackerVars, calcVars>>

\* The response of POST /loop is out: 200 with the result, or 500.
trigger_loop_respond ==
    /\ pc["manual"] = "respond"
    /\ Goto("manual", FrameIdle, "idle")
    /\ UNCHANGED <<venueVars, trackerVars, calcVars>>

\* lifespan after the yield: task.cancel() raises CancelledError in the
\* monitoring task at the await it is suspended at.
lifespan_shutdown ==
    /\ Serving
    /\ pc["monitor"] # "cancelled"
    /\ pc' = [pc EXCEPT !["monitor"] = "cancelled"]
    /\ fr' = [fr EXCEPT !["monitor"].at = pc["monitor"]]
    /\ UNCHANGED <<last_result, check_count, venueVars, trackerVars, calcVars>>

(***************************************************************************)
(* The venue between the requests of a cycle: what the position list and   *)
(* the price lookups answer changes without the program's doing.           *)
(***************************************************************************)
\* A position is closed: the list get_flexible_loan_ongoing_orders returns
\* no longer has its row.
position_closed ==
    /\ \E i \in 1 .. Len(venueLoans) :
           venueLoans' = SubSeq(venueLoans, 1, i - 1) \o SubSeq(venueLoans, i + 1, Len(venueLoans))
    /\ UNCHANGED <<price, feedDown, spot, faults, pc, fr, check_count, last_result,
                   trackerVars, calcVars>>

\* The coins whose price moves during a cycle.
MovingCoins == {"ETH"}

\* The market moves: get_price answers another price for a coin.
price_moves ==
    /\ \E c \in MovingCoins, v \in 1 .. MaxPrice :
           /\ v # price[c]
           /\ price' = [price EXCEPT ![c] = v]
    /\ UNCHANGED <<venueLoans, feedDown, spot, faults, pc, fr, check_count, last_result,
                   trackerVars, calcVars>>

(***************************************************************************)
(* main.py: GET /pnl, GET /pnl/history and POST /pnl/reset.                *)
(***************************************************************************)
Handlers == {"pnl", "reset", "history"}

\* The locals of a handler (snap, the list calculate_total_equity fetched)
\* and its response: the status, the snapshot record_snapshot returned to
\* it, the body.
OutIdle == [status |-> 0, snap |-> <<>>, snapshot |-> <<>>, body |-> <<>>]

\* round(x, 2)
Round2(x) ==
    IF 100 % x[2] = 0 THEN x
    ELSE Norm((x[1] * 200 + x[2]) \div (2 * x[2]), 100)

\* The trend of get_pnl_summary over the last 5 entries.
Trend(h) ==
    LET n == Len(h)
        first == h[IF n >= 5 THEN n - 4 ELSE 1].total_equity_usd
        last == h[n].total_equity_usd
    IN  IF n < 2 THEN "flat"
        ELSE IF RLt(RMul(first, <<1001, 1000>>), last) THEN "up"
        ELSE IF RLt(last, RMul(first, <<999, 1000>>)) THEN "down"
        ELSE "flat"

get_pnl_summary(h, start, start_ts) ==
    LET equities == {h[i].total_equity_usd : i \in DOMAIN h}
        current == h[Len(h)].total_equity_usd
        based == start # None /\ start # <<ZeroF>>
    IN  IF h = <<>>
        THEN [starting_equity |-> start, starting_timestamp |-> start_ts,
              current_equity |-> None, pnl_absolute |-> ZeroF, pnl_percent |-> ZeroF,
              high_equity |-> None, low_equity |-> None, snapshots_count |-> 0,
              trend |-> "unknown"]
        ELSE [starting_equity |-> start, starting_timestamp |-> start_ts,
              current_equity |-> <<current>>,
              pnl_absolute |-> IF based THEN RSub(current, start[1]) ELSE ZeroF,
              pnl_percent |-> IF based
                              THEN RMul(RDiv(RSub(current, start[1]), start[1]), R(100))
                              ELSE ZeroF,
              high_equity |-> <<CHOOSE x \in equities : \A y \in equities : RLe(y, x)>>,
              low_equity |-> <<CHOOSE x \in equities : \A y \in equities : RLe(x, y)>>,
              snapshots_count |-> Len(h),
              trend |-> Trend(h)]

\* self.history[-limit:]
get_history(h, limit) == IF Len(h) > limit THEN SubSeq(h, Len(h) - limit + 1, Len(h)) ELSE h

\* lifespan constructs the ProfitTracker: __init__ sets the empty history
\* without baseline and calls _load_history; an exception that left the
\* constructor would end the startup, otherwise the service serves the P&L
\* endpoints.
__init__ ==
    /\ \A h \in Handlers : req[h] = "off"
    /\ \E r \in ReadOutcomes :
        LET loaded == _load_history(file, r)
        IN  /\ file.state = "absent" => r = "ok"
            /\ history' = loaded.history
            /\ starting_equity' = loaded.starting_equity
            /\ starting_timestamp' = loaded.starting_timestamp
            /\ now' = Len(loaded.history)
            /\ diskFaults' = IF r = "ok" THEN diskFaults ELSE diskFaults - 1
            /\ req' = [h \in Handlers |-> IF loaded.raised THEN "down" ELSE "idle"]
    /\ UNCHANGED <<file, out, requests, venueVars, calcVars, pc, fr, check_count,
                   last_result>>

\* GET /pnl arrives: record_snapshot is called and its list fetch is out.
get_pnl ==
    /\ req["pnl"] = "idle"
    /\ requests > 0
    /\ requests' = requests - 1
    /\ req' = [req EXCEPT !["pnl"] = "fetch"]
    /\ out' = [out EXCEPT !["pnl"] = OutIdle]
    /\ UNCHANGED <<venueVars, trackerState, calcVars, pc, fr, check_count, last_result>>

\* POST /pnl/reset arrives: reset_tracking runs, then record_snapshot is
\* called and its list fetch is out.
reset_pnl ==
    /\ req["reset"] = "idle"
    /\ requests > 0
    /\ requests' = requests - 1
    /\ \E w \in WriteOutcomes : reset_tracking(w)
    /\ req' = [req EXCEPT !["reset"] = "fetch"]
    /\ out' = [out EXCEPT !["reset"] = OutIdle]
    /\ UNCHANGED <<venueVars, now, calcVars, pc, fr, check_count, last_result>>

\* The list fetch of calculate_total_equity answers a handler; an exception
\* makes the handler respond 500.
handler_snapshot_fetch(h) ==
    /\ req[h] = "fetch"
    /\ \E a \in Answers :
        /\ faults' = Spend(a)
        /\ IF a = "raise"
           THEN /\ req' = [req EXCEPT ![h] = "idle"]
                /\ out' = [out EXCEPT ![h] = [OutIdle EXCEPT !.status = 500]]
           ELSE /\ req' = [req EXCEPT ![h] = "spot"]
                /\ out' = [out EXCEPT ![h].snap = Rows(a)]
    /\ UNCHANGED <<venueLoans, price, feedDown, spot, trackerState, requests, calcVars,
                   pc, fr, check_count, last_result>>

\* The rest of GET /pnl: record_snapshot returns, get_pnl_summary is called,
\* the response is built.
get_pnl_respond ==
    /\ req["pnl"] = "spot"
    /\ \E b \in SpotBalancesAnswers, w \in WriteOutcomes :
        LET equity_data == calculate_total_equity(out["pnl"].snap, b = "ok", Feed)
            snapshot == record_snapshot(starting_equity, starting_timestamp, history,
                                        equity_data)
        IN  /\ faults' = Spend(b)
            /\ RecordSnapshot(w, equity_data)
            /\ out' = [out EXCEPT !["pnl"] =
                   [status |-> 200, snap |-> <<>>, snapshot |-> <<snapshot>>,
                    body |-> <<[making_money |-> RLt(ZeroF, snapshot.pnl_absolute_usd),
                               pnl_absolute_usd |-> Round2(snapshot.pnl_absolute_usd),
                               current_equity_usd |-> Round2(snapshot.total_equity_usd),
                               starting_equity_usd |-> Round2(snapshot.starting_equity_usd),
                               summary |-> get_pnl_summary(history', starting_equity',
                                                           starting_timestamp')]>>]]
    /\ req' = [req EXCEPT !["pnl"] = "idle"]
    /\ UNCHANGED <<venueLoans, price, feedDown, spot, requests, calcVars,
                   pc, fr, check_count, last_result>>

\* The rest of POST /pnl/reset: record_snapshot returns and the response
\* reports its equity as the new starting equity.
reset_pnl_respond ==
    /\ req["reset"] = "spot"
    /\ \E b \in SpotBalancesAnswers, w \in WriteOutcomes :
        LET equity_data == calculate_total_equity(out["reset"].snap, b = "ok", Feed)
            snapshot == record_snapshot(starting_equity, starting_timestamp, history,
                                        equity_data)
        IN  /\ faults' = Spend(b)
            /\ RecordSnapshot(w, equity_data)
            /\ out' = [out EXCEPT !["reset"] =
                   [status |-> 200, snap |-> <<>>, snapshot |-> <<snapshot>>,
                    body |-> <<[new_starting_equity |->
                                   Round2(snapshot.total_equity_usd)]>>]]
    /\ req' = [req EXCEPT !["reset"] = "idle"]
    /\ UNCHANGED <<venueLoans, price, feedDown, spot, requests, calcVars,
                   pc, fr, check_count, last_result>>

\* GET /pnl/history: get_history and get_pnl_summary.
get_pnl_history ==
    /\ req["history"] = "idle"
    /\ requests > 0
    /\ requests' = requests - 1
    /\ out' = [out EXCEPT !["history"] =
           [status |-> 200, snap |-> <<>>, snapshot |-> <<>>,
            body |-> <<[summary |-> get_pnl_summary(history, starting_equity,
                                                    starting_timestamp),
                       history |-> get_history(history, 100)]>>]]
    /\ UNCHANGED <<venueVars, trackerState, req, calcVars, pc, fr, check_count, last_result>>

(***************************************************************************)
(* Valuation calls on their own.                                           *)
(***************************************************************************)
CalcLeverage ==
    /\ calcOut.op = "none"
    /\ calcOut' = [op |-> "get_current_leverage",
                   value |-> <<get_current_leverage(calcIn.loan, calcIn.feed)>>]
    /\ UNCHANGED <<calcIn, venueVars, pc, fr, check_count, last_result, trackerVars>>

CalcBorrow ==
    /\ calcOut.op = "none"
    /\ calcOut' = [op |-> "calculate_borrow_amount",
                   value |-> calculate_borrow_amount(calcIn.loan, calcIn.feed)]
    /\ UNCHANGED <<calcIn, venueVars, pc, fr, check_count, last_result, trackerVars>>

\* The position equity record the ProfitTracker computes for the position.
CalcEquity ==
    /\ calcOut.op = "none"
    /\ calcOut' = [op |-> "calculate_position_equity",
                   value |-> <<calculate_position_equity(calcIn.loan, calcIn.feed).leverage>>]
    /\ UNCHANGED <<calcIn, venueVars, pc, fr, check_count, last_result, trackerVars>>

(***************************************************************************)
(* Initial states.                                                         *)
(***************************************************************************)
\* Collateral and loan coins of the positions considered.
Pairs == {<<"BTC", "USDT">>, <<"USDT", "ETH">>, <<"BTC", "ETH">>, <<"USDT", "USDT">>}

CollateralAmounts == {MaxAmount}

DebtAmounts == {0, 3}

VenueRows ==
    {Loan(pr[1], pr[2], R(ca), R(td)) : pr \in Pairs, ca \in CollateralAmounts,
                                        td \in DebtAmounts}

\* The lists of at most n positions, one per pair of coins at most.
VenueLists(n) ==
    {l \in UNION {[1 .. k -> VenueRows] : k \in 0 .. n} :
        \A i, j \in 1 .. Len(l) :
            Matches(l[i], l[j].collateralCoin, l[j].loanCoin) => i = j}

\* The positions of the accounts whose cycles are considered: one per pair.
CycleRows ==
    {Loan("BTC", "ETH", R(MaxAmount), ZeroF), Loan("BTC", "USDT", R(MaxAmount), R(3)),
     Loan("USDT", "ETH", R(MaxAmount), R(3)), Loan("USDT", "USDT", R(MaxAmount), ZeroF)}

\* The lists of at most n positions of an account.
CycleLists(n) == {l \in VenueLists(n) : \A i \in 1 .. Len(l) : l[i] \in CycleRows}

\* Wallets: small holdings and large holdings.
SmallWallet == [a \in SpotAssets |-> IF a = "USDT" THEN R(MIN_RESERVE_USD) ELSE R(3)]

LargeWallet == [a \in SpotAssets |-> IF a = "USDT" THEN R(MIN_RESERVE_USD + 83) ELSE R(8)]

Wallets == {SmallWallet, LargeWallet}

\* The positions of the lists a sweep is called with, and the lists.
SweepRows ==
    {Loan("USDT", "BTC", R(MaxAmount), ZeroF), Loan("USDT", "ETH", R(MaxAmount), ZeroF),
     Loan("USDT", "USDT", R(MaxAmount), ZeroF), Loan("BTC", "ETH", R(MaxAmount), ZeroF)}

SweepLists ==
    {l \in UNION {[1 .. k -> SweepRows] : k \in 0 .. MaxSweepPositions} :
        \A i, j \in 1 .. Len(l) : l[i] = l[j] => i = j}

\* The wallets a sweep finds: the USDT balance is at the reserve, or above
\* it by a half, by 1 or by 2.
SweepWallets ==
    {[a \in SpotAssets |-> IF a = "USDT" THEN u ELSE R(MaxAmount)] :
        u \in {R(MIN_RESERVE_USD), RAdd(R(MIN_RESERVE_USD), <<1, 2>>),
               R(MIN_RESERVE_USD + 1), R(MIN_RESERVE_USD + 2)}}

NoCalc == [loan |-> NoLoan, feed |-> [c \in NonStable |-> 0]]

\* ProfitTracker.__init__ without a data file.
TrackerNew ==
    /\ history = <<>>
    /\ starting_equity = None
    /\ starting_timestamp = None
    /\ file = NoFile
    /\ now = 0

\* No request of the P&L endpoints is considered and no write fails.
HandlersOff ==
    /\ req = [h \in Handlers |-> "off"]
    /\ out = [h \in Handlers |-> OutIdle]
    /\ requests = 0
    /\ diskFaults = 0

\* The parts of the state that a cycle on its own leaves alone.
HostIdle ==
    /\ check_count = 0
    /\ last_result = [kind |-> "empty"]
    /\ TrackerNew
    /\ HandlersOff
    /\ calcIn = NoCalc
    /\ calcOut = [op |-> "off", value |-> <<>>]

\* A wallet that holds nothing.
EmptyWallet == [a \in SpotAssets |-> ZeroF]

\* The history entry of an earlier session: a snapshot of the given equity,
\* taken against the baseline start.
LoadedEntry(ts, equity, start) ==
    Snapshot(<<start>>, [total_equity_usd |-> equity, total_collateral_usd |-> equity,
                         total_debt_usd |-> ZeroF, spot_value_usd |-> ZeroF,
                         timestamp |-> ts])

\* _load_history: the tracker as constructed from the data file an earlier
\* session saved with the history h and the baseline start.
TrackerLoaded(h, start) ==
    /\ history = h
    /\ starting_equity = <<start>>
    /\ starting_timestamp = <<1>>
    /\ file = _save_history("ok", <<start>>, <<1>>, h)
    /\ now = Len(h)

\* Histories of earlier sessions: n entries, of which the first of the
\* last five and the last have the given equities.
LoadedHistory(n, first, last) ==
    [i \in 1 .. n |->
        LoadedEntry(i, IF i = n THEN last
                       ELSE IF i = (IF n >= 5 THEN n - 4 ELSE 1) THEN first
                       ELSE R(500),
                    R(500))]

HistoryLengths == {1, 2, 5, 6, HISTORY_CAP - 1, HISTORY_CAP}

TrendPairs ==
    {<<R(1000), R(1000)>>, <<R(1000), R(1002)>>, <<R(1000), R(998)>>,
     <<R(1000), R(999)>>, <<R(0 - 1000), R(0 - 1000)>>, <<ZeroF, ZeroF>>}

\* The account the P&L endpoints look at: no position or one, the price of
\* its collateral coin available or not, an empty wallet or a full one.
TrackerVenue ==
    /\ venueLoans \in {<<>>, <<Loan("BTC", "USDT", R(MaxAmount), R(3))>>}
    /\ price = [c \in NonStable |-> IF c = "ETH" THEN MaxPrice ELSE 1]
    /\ feedDown \in SUBSET {"BTC"}
    /\ spot \in {EmptyWallet, LargeWallet}

\* The service serves the P&L endpoints; the cycles are left out.
HandlersIdle ==
    /\ req = [h \in Handlers |-> "idle"]
    /\ out = [h \in Handlers |-> OutIdle]
    /\ requests = MaxRequests
    /\ pc = [p \in Procs |-> "off"]
    /\ fr = [p \in Procs |-> FrameIdle]
    /\ check_count = 0
    /\ last_result = [kind |-> "empty"]
    /\ calcIn = NoCalc
    /\ calcOut = [op |-> "off", value |-> <<>>]

\* A tracker without a data file or with the file of an earlier session, on
\* a venue and a disk that can fail once.
InitTracker ==
    /\ TrackerVenue
    /\ faults \in {0, 1}
    /\ diskFaults \in {0, 1}
    /\ \/ TrackerNew
       \/ TrackerLoaded(<<LoadedEntry(1, R(100), R(100))>>, R(100))
    /\ HandlersIdle

\* A tracker with the history of an earlier session, on a venue that
\* answers.
InitHistory ==
    /\ venueLoans = <<Loan("BTC", "USDT", R(MaxAmount), R(3))>>
    /\ price = [c \in NonStable |-> IF c = "ETH" THEN MaxPrice ELSE 1]
    /\ feedDown = {}
    /\ spot = LargeWallet
    /\ faults = 0
    /\ diskFaults \in {0, 1}
    /\ \E n \in HistoryLengths, pr \in TrendPairs :
           TrackerLoaded(LoadedHistory(n, pr[1], pr[2]), R(500))
    /\ HandlersIdle

\* The data files a starting service can find: none, the file of an earlier
\* session, or one that a failed save cut short.
DataFiles ==
    {NoFile, _save_history("ok", <<R(100)>>, <<1>>, <<LoadedEntry(1, R(100), R(100))>>),
     [NoFile EXCEPT !.state = "truncated"]}

\* lifespan is about to construct the ProfitTracker, on a disk whose reads
\* and writes can fail twice.
InitPersist ==
    /\ venueLoans = <<Loan("BTC", "USDT", R(MaxAmount), R(3))>>
    /\ price = [c \in NonStable |-> IF c = "ETH" THEN MaxPrice ELSE 1]
    /\ feedDown \in SUBSET {"BTC"}
    /\ spot = LargeWallet
    /\ faults \in {0, 1}
    /\ diskFaults \in {0, MaxDiskFaults}
    /\ file \in DataFiles
    /\ history = <<>>
    /\ starting_equity = None
    /\ starting_timestamp = None
    /\ now = 0
    /\ req = [h \in Handlers |-> "off"]
    /\ out = [h \in Handlers |-> OutIdle]
    /\ requests = MaxRequests
    /\ pc = [p \in Procs |-> "off"]
    /\ fr = [p \in Procs |-> FrameIdle]
    /\ check_count = 0
    /\ last_result = [kind |-> "empty"]
    /\ calcIn = NoCalc
    /\ calcOut = [op |-> "off", value |-> <<>>]

\* The service serves the P&L endpoints while its monitoring task runs its
\* cycles, on an account without positions whose wallet is the equity.
InitSnapshots ==
    /\ venueLoans = <<>>
    /\ price = [c \in NonStable |-> IF c = "ETH" THEN MaxPrice ELSE 1]
    /\ feedDown = {}
    /\ spot = LargeWallet
    /\ faults \in {0, 1}
    /\ diskFaults \in {0, 1}
    /\ TrackerNew
    /\ req = [h \in Handlers |-> "idle"]
    /\ out = [h \in Handlers |-> OutIdle]
    /\ requests = MaxRequests
    /\ pc = [p \in Procs |-> IF p = "monitor" THEN "created" ELSE "off"]
    /\ fr = [p \in Procs |-> FrameIdle]
    /\ check_count = 0
    /\ last_result = [kind |-> "empty"]
    /\ calcIn = NoCalc
    /\ calcOut = [op |-> "off", value |-> <<>>]

\* The sample amounts of valuation calls.
CalcAmounts == (0 .. MaxAmount) \cup {50, 75, 100}

InitCalc ==
    /\ calcIn \in [loan : {Loan(cc, lc, R(ca), R(td)) : cc \in Coins, lc \in Coins,
                                                        ca \in CalcAmounts, td \in CalcAmounts},
                   feed : PriceFeeds]
    /\ calcOut = [op |-> "none", value |-> <<>>]
    /\ venueLoans = <<>>
    /\ price = [c \in NonStable |-> 1]
    /\ feedDown = {}
    /\ spot = [a \in SpotAssets |-> ZeroF]
    /\ faults = 0
    /\ pc = [p \in Procs |-> "off"]
    /\ fr = [p \in Procs |-> FrameIdle]
    /\ check_count = 0
    /\ last_result = [kind |-> "empty"]
    /\ TrackerNew
    /\ HandlersOff

\* loop_all_positions has just been called, on an account with one position
\* and a venue that may reject any request.
InitDriver ==
    /\ venueLoans \in {l \in VenueLists(1) : l # <<>>}
    /\ price \in [NonStable -> 1 .. MaxPrice]
    /\ feedDown = {}
    /\ spot = LargeWallet
    /\ faults = Unlimited
    /\ pc = [p \in Procs |-> IF p = "manual" THEN "lap_fetch" ELSE "off"]
    /\ fr = [p \in Procs |-> FrameIdle]
    /\ HostIdle

\* loop_all_positions has just been called, on an account with up to
\* MaxPositions positions.
InitCycle ==
    /\ venueLoans \in CycleLists(MaxPositions)
    /\ price = [c \in NonStable |-> IF c = "ETH" THEN MaxPrice ELSE 1]
    /\ feedDown \in SUBSET {"ETH"}
    /\ spot \in Wallets
    /\ faults \in 0 .. MaxFaults
    /\ pc = [p \in Procs |-> IF p = "manual" THEN "lap_fetch" ELSE "off"]
    /\ fr = [p \in Procs |-> FrameIdle]
    /\ HostIdle

\* loop_all_positions has just been called, on an account with one position
\* and a venue whose positions and prices change meanwhile.
InitVenue ==
    /\ venueLoans \in {l \in CycleLists(1) : l # <<>>}
    /\ price \in {f \in [NonStable -> 1 .. MaxPrice] :
                      \A c \in NonStable \ MovingCoins : f[c] = 1}
    /\ feedDown = {}
    /\ spot = LargeWallet
    /\ faults \in {0, 1}
    /\ pc = [p \in Procs |-> IF p = "manual" THEN "lap_fetch" ELSE "off"]
    /\ fr = [p \in Procs |-> FrameIdle]
    /\ HostIdle

\* Positions without debt, one for each way the two coins can relate to USDT:
\* the first borrow of each is worth more than 5 USD.
RoutingRows ==
    {Loan("BTC", "ETH", R(MaxAmount), ZeroF), Loan("BTC", "USDT", R(MaxAmount), ZeroF),
     Loan("USDT", "ETH", R(MaxAmount), ZeroF), Loan("USDT", "USDT", R(MaxAmount), ZeroF)}

\* loop_all_positions has just been called, on an account with one position
\* without debt and a small or a large wallet.
InitRouting ==
    /\ venueLoans \in {<<r>> : r \in RoutingRows}
    /\ price \in {f \in [NonStable -> 1 .. MaxPrice] :
                      \A c \in NonStable \ MovingCoins : f[c] = 1}
    /\ feedDown \in SUBSET {"ETH"}
    /\ spot \in Wallets
    /\ faults \in 0 .. MaxFaults
    /\ pc = [p \in Procs |-> IF p = "manual" THEN "lap_fetch" ELSE "off"]
    /\ fr = [p \in Procs |-> FrameIdle]
    /\ HostIdle

\* The positions of the lists of a sweep of coins other than USDT: two with
\* the same collateral coin, one with a Simple Earn token.
AssetSweepRows ==
    {Loan("BTC", "USDT", R(MaxAmount), ZeroF), Loan("BTC", "ETH", R(MaxAmount), ZeroF),
     Loan("ETH", "USDT", R(MaxAmount), ZeroF), Loan("USDT", "BTC", R(MaxAmount), ZeroF),
     Loan("LDBTC", "USDT", R(MaxAmount), ZeroF)}

AssetSweepLists ==
    {l \in UNION {[1 .. k -> AssetSweepRows] : k \in 0 .. MaxSweepPositions} :
        \A i, j \in 1 .. Len(l) : l[i] = l[j] => i = j}

\* The wallets of such a sweep: BTC worth less than 0.10 USD, exactly 0.10 USD
\* or more.
AssetSweepWallets ==
    {[a \in SpotAssets |-> IF a = "USDT" THEN R(MIN_RESERVE_USD + 2)
                           ELSE IF a = "BTC" THEN b ELSE R(MaxAmount)] :
        b \in {<<1, 20>>, <<1, 10>>, R(MaxAmount)}}

\* sweep_spot_to_collateral has just been called with such a list and wallet.
InitSweepAssets ==
    /\ venueLoans \in AssetSweepLists
    /\ price = [c \in NonStable |-> IF c = "ETH" THEN MaxPrice ELSE 1]
    /\ feedDown \in SUBSET {"ETH"}
    /\ spot \in AssetSweepWallets
    /\ faults \in {0, 1}
    /\ pc = [p \in Procs |-> IF p = "manual" THEN "sweep" ELSE "off"]
    /\ fr = [p \in Procs |->
                IF p = "manual"
                THEN [FrameIdle EXCEPT !.loans = venueLoans, !.sorted_loans = <<>>,
                                       !.idx = 1, !.fetches = 2, !.stamp = 2,
                                       !.sweeps = 1, !.sweep_stamp = 2]
                ELSE FrameIdle]
    /\ HostIdle

\* loop_all_positions has just been called, on an account with one position
\* without debt, at an ETH price that divides the capacity evenly (2) or not
\* (7).
InitBorrow ==
    /\ venueLoans \in {<<Loan("BTC", "ETH", R(MaxAmount), ZeroF)>>,
                       <<Loan("USDT", "ETH", R(MaxAmount), ZeroF)>>}
    /\ price \in {[c \in NonStable |-> IF c = "ETH" THEN e ELSE 1] : e \in {2, 7}}
    /\ feedDown \in SUBSET {"ETH"}
    /\ spot = LargeWallet
    /\ faults \in 0 .. MaxFaults
    /\ pc = [p \in Procs |-> IF p = "manual" THEN "lap_fetch" ELSE "off"]
    /\ fr = [p \in Procs |-> FrameIdle]
    /\ HostIdle

\* sweep_spot_to_collateral has just been called with the list the cycle
\* fetched after its drivers.
InitSweep ==
    /\ venueLoans \in SweepLists
    /\ price = [c \in NonStable |-> IF c = "ETH" THEN MaxPrice ELSE 1]
    /\ feedDown = {}
    /\ spot \in SweepWallets
    /\ faults \in {0, 1}
    /\ pc = [p \in Procs |-> IF p = "manual" THEN "sweep" ELSE "off"]
    /\ fr = [p \in Procs |->
                IF p = "manual"
                THEN [FrameIdle EXCEPT !.loans = venueLoans, !.sorted_loans = <<>>,
                                       !.idx = 1, !.fetches = 2, !.stamp = 2,
                                       !.sweeps = 1, !.sweep_stamp = 2]
                ELSE FrameIdle]
    /\ HostIdle

\* The service at its startup: lifespan is about to record the initial
\* snapshot and to create the monitoring task; no request is being served.
Init ==
    /\ venueLoans \in {<<Loan("BTC", "ETH", R(MaxAmount), ZeroF)>>,
                       <<Loan("USDT", "ETH", R(MaxAmount), R(3))>>}
    /\ price = [c \in NonStable |-> IF c = "ETH" THEN 2 ELSE 1]
    /\ feedDown = {}
    /\ spot = LargeWallet
    /\ faults \in {0, 1}
    /\ pc = [p \in Procs |-> IF p = "manual" THEN "idle" ELSE "startup"]
    /\ fr = [p \in Procs |-> FrameIdle]
    /\ HostIdle

\* The same, for a service that receives no POST /loop request.
InitMonitor ==
    /\ venueLoans \in CycleLists(1)
    /\ price = [c \in NonStable |-> IF c = "ETH" THEN 2 ELSE 1]
    /\ feedDown = {}
    /\ spot = LargeWallet
    /\ faults = MaxFaults
    /\ pc = [p \in Procs |-> IF p = "manual" THEN "off" ELSE "startup"]
    /\ fr = [p \in Procs |-> FrameIdle]
    /\ HostIdle

(***************************************************************************)
(* Next-state relations and specifications.                                *)
(***************************************************************************)
NextCalc == CalcLeverage \/ CalcBorrow \/ CalcEquity

CycleStep(p) ==
    \/ loop_all_positions_fetch(p)
    \/ loop_all_positions_spot(p)
    \/ loop_all_positions_leverage(p)
    \/ loop_position_call(p)
    \/ loop_position_iteration(p)
    \/ execute_loop_borrow(p)
    \/ execute_loop_convert(p)
    \/ execute_loop_buy(p)
    \/ execute_loop_fallback(p)
    \/ execute_loop_deposit(p)
    \/ loop_position_final(p)
    \/ loop_all_positions_refresh(p)
    \/ sweep_balances(p)
    \/ sweep_asset(p)
    \/ sweep_usdt(p)
    \/ loop_all_positions_finish(p)

NextCycle == \E p \in Procs : CycleStep(p)

\* loop_all_positions up to the return of loop_position.
NextDriver ==
    \E p \in Procs :
        \/ loop_all_positions_fetch(p)
        \/ loop_all_positions_spot(p)
        \/ loop_all_positions_leverage(p)
        \/ loop_position_call(p)
        \/ loop_position_iteration(p)
        \/ execute_loop_borrow(p)
        \/ execute_loop_convert(p)
        \/ execute_loop_buy(p)
        \/ execute_loop_fallback(p)
        \/ execute_loop_deposit(p)
        \/ loop_position_final(p)

\* sweep_spot_to_collateral.
NextSweep == \E p \in Procs : sweep_balances(p) \/ sweep_asset(p) \/ sweep_usdt(p)

\* The P&L endpoints.
NextTracker ==
    \/ get_pnl
    \/ reset_pnl
    \/ \E h \in {"pnl", "reset"} : handler_snapshot_fetch(h)
    \/ get_pnl_respond
    \/ reset_pnl_respond
    \/ get_pnl_history

NextMonitor ==
    \/ \E p \in Procs : CycleStep(p)
    \/ monitoring_loop_cycle
    \/ record_snapshot_fetch
    \/ record_snapshot_record
    \/ lifespan_shutdown

Next ==
    \/ \E p \in Procs : CycleStep(p)
    \/ monitoring_loop_cycle
    \/ record_snapshot_fetch
    \/ record_snapshot_record
    \/ lifespan_shutdown
    \/ trigger_loop
    \/ trigger_loop_respond

SpecCalc == InitCalc /\ [][NextCalc]_vars

SpecDriver == InitDriver /\ [][NextDriver]_vars

SpecCycle == InitCycle /\ [][NextCycle]_vars

SpecRouting == InitRouting /\ [][NextCycle]_vars

SpecBorrow == InitBorrow /\ [][NextCycle]_vars

SpecSweep == InitSweep /\ [][NextSweep]_vars

SpecSweepAssets == InitSweepAssets /\ [][NextSweep]_vars

SpecTracker == InitTracker /\ [][NextTracker]_vars

SpecHistory == InitHistory /\ [][NextTracker]_vars

SpecMonitor == InitMonitor /\ [][NextMonitor]_vars

\* The drivers of a cycle on a venue that changes meanwhile.
NextVenue == NextDriver \/ position_closed \/ price_moves

SpecVenue == InitVenue /\ [][NextVenue]_vars

\* The P&L endpoints beside the cycles and snapshots of the monitoring task.
NextSnapshots ==
    \/ NextTracker
    \/ monitoring_loop_cycle
    \/ loop_all_positions_fetch("monitor")
    \/ record_snapshot_fetch
    \/ record_snapshot_record

SpecSnapshots == InitSnapshots /\ [][NextSnapshots]_vars

\* The P&L endpoints from the construction of the tracker on.
NextPersist == __init__ \/ NextTracker

SpecPersist == InitPersist /\ [][NextPersist]_vars

Spec == Init /\ [][Next]_vars

(***************************************************************************)
(* Properties of the valuation functions (SpecCalc).                       *)
(***************************************************************************)
\* The price of a coin and the USD values of a valuation call's position, in
\* integers.
CalcPrice(coin) == IF coin = "USDT" THEN 1 ELSE calcIn.feed[coin]

CalcC == calcIn.loan.collateralAmount[1] * CalcPrice(calcIn.loan.collateralCoin)

CalcD == calcIn.loan.totalDebt[1] * CalcPrice(calcIn.loan.loanCoin)

CalcPriceMissing ==
    CalcPrice(calcIn.loan.collateralCoin) = 0 \/ CalcPrice(calcIn.loan.loanCoin) = 0

\* C9: get_current_leverage returns 0 when a price is 0 or when C <= D, and
\* otherwise exactly C / (C - D); it never divides by zero and never returns
\* a negative number.
C9_LeverageValue ==
    calcOut.op = "get_current_leverage" =>
        LET v == calcOut.value[1]
        IN  /\ v # ZeroDivisionError
            /\ v[2] > 0
            /\ v[1] >= 0
            /\ IF CalcPriceMissing \/ CalcC <= CalcD THEN v = ZeroF
               ELSE v[1] * (CalcC - CalcD) = CalcC * v[2]

\* C = 100 and D = 75 give leverage 4.
C9_Witness ==
    /\ calcOut.op = "get_current_leverage"
    /\ CalcC = 100
    /\ CalcD = 75
    /\ calcOut.value[1] = <<4, 1>>

\* C10: calculate_borrow_amount returns (borrowUsd / loan price, borrowUsd)
\* with borrowUsd = C * 0.75 - D when borrowUsd >= MIN_LOOP_USD, and (0, 0)
\* when it is smaller or a price is unavailable.
C10_BorrowValue ==
    calcOut.op = "calculate_borrow_amount" =>
        LET amount == calcOut.value[1]
            usd == calcOut.value[2]
            loan_price == CalcPrice(calcIn.loan.loanCoin)
        IN  IF ~CalcPriceMissing /\ 3 * CalcC - 4 * CalcD >= 4 * 1
            THEN /\ usd[2] > 0
                 /\ amount[2] > 0
                 /\ 4 * usd[1] = (3 * CalcC - 4 * CalcD) * usd[2]
                 /\ amount[1] * loan_price * usd[2] = usd[1] * amount[2]
            ELSE amount = ZeroF /\ usd = ZeroF

\* C = 100 and D = 50 give a borrow of 25 USD.
C10_Witness ==
    /\ calcOut.op = "calculate_borrow_amount"
    /\ CalcC = 100
    /\ CalcD = 50
    /\ calcOut.value[2] = <<25, 1>>

\* C11: the leverage of the ProfitTracker's position equity record equals
\* the leverage get_current_leverage computes for the same position and the
\* same prices, an unavailable price and an underwater position included.
C11_SameLeverage ==
    calcOut.op = "calculate_position_equity" =>
        calcOut.value[1] = get_current_leverage(calcIn.loan, calcIn.feed)

(***************************************************************************)
(* Properties of the per-position driver (SpecDriver).                     *)
(***************************************************************************)
\* C1: loop_position makes at most 50 iterations whatever the venue answers:
\* execute_loop is called at most 50 times and loops_executed is at most 50.
C1_AtMostFiftyLoops ==
    \A p \in Procs :
        /\ fr[p].lp.loop_count <= 50
        /\ fr[p].lp.cycles <= 50
        /\ fr[p].lp.result.loops_executed <= 50
        /\ \A i \in 1 .. Len(fr[p].result.details) :
               fr[p].result.details[i].loops_executed <= 50

\* A driver that returned after 50 successful cycles.
C1_Witness ==
    \E p \in Procs :
        /\ pc[p] = "lap_next"
        /\ Len(fr[p].result.details) = 1
        /\ fr[p].result.details[1].loops_executed = 50
        /\ fr[p].result.total_loops = 50

(***************************************************************************)
(* Properties of a portfolio cycle (SpecCycle).                            *)
(***************************************************************************)
\* The coins of the position a row of the list is about.
PairOf(loan) == <<loan.collateralCoin, loan.loanCoin>>

\* C3: no failure while looping one position aborts the orchestration of the
\* other positions: a cycle that has called loop_position ends only after
\* it has called it on every position of its list.
C3_OtherPositionsStillDriven ==
    \A p \in Procs :
        (fr[p].ended # "no" /\ Len(fr[p].driven) >= 1) =>
            Len(fr[p].driven) = Len(fr[p].sorted_loans)

C7_SweepOnceAfterDrivers ==
    \A p \in Procs :
        LET f == fr[p]
        IN  /\ f.sweeps <= 1
            /\ f.sweeps = 1 =>
                /\ f.idx > Len(f.sorted_loans)
                /\ Len(f.driven) = Len(f.sorted_loans)
                /\ f.lp = LpIdle
                /\ f.sweep_stamp > f.driver_stamp
                /\ f.sweep_stamp > 1
                /\ f.stamp = f.sweep_stamp
            /\ (f.ended = "returned" /\ f.sorted_loans # <<>>) => f.sweeps = 1

\* A cycle returned after two drivers and a sweep on a list that differs
\* from the list it had fetched first.
C7_Witness ==
    \E p \in Procs :
        /\ fr[p].ended = "returned"
        /\ fr[p].sweeps = 1
        /\ Len(fr[p].driven) = 2
        /\ \E i \in 1 .. Len(fr[p].loans) :
               \A k \in 1 .. Len(fr[p].sorted_loans) :
                   fr[p].sorted_loans[k][2] # fr[p].loans[i]

\* C8: when the venue reports no open position, loop_all_positions returns
\* at once the zero result with empty details, without a borrow, a
\* conversion, an adjustment or a sweep.
C8_NoPositionsNoCalls ==
    \A p \in Procs :
        (fr[p].stamp = 1 /\ fr[p].loans = <<>>) =>
            /\ fr[p].ended = "returned"
            /\ fr[p].fetches = 1
            /\ fr[p].calls = {}
            /\ fr[p].sweeps = 0
            /\ fr[p].driven = <<>>
            /\ last_result.positions_processed = 0
            /\ last_result.positions_looped = 0
            /\ last_result.total_loops = 0
            /\ last_result.total_borrowed_usd = ZeroF
            /\ last_result.total_added_usd = ZeroF
            /\ last_result.swept_usd = ZeroF
            /\ last_result.details = <<>>

\* A cycle on an account without positions has returned.
C8_Witness ==
    \E p \in Procs :
        /\ venueLoans = <<>>
        /\ fr[p].stamp = 1
        /\ fr[p].loans = <<>>
        /\ fr[p].ended = "returned"
        /\ last_result.details = <<>>

(***************************************************************************)
(* Properties of the sweep (SpecSweep).                                    *)
(***************************************************************************)
\* An amount of at most 8 decimals in units of 10^-8.
E8(x) == x[1] * (100000000 \div x[2])

RECURSIVE SumSentE8(_)
SumSentE8(deposits) ==
    IF deposits = <<>> THEN 0 ELSE E8(Head(deposits).sent) + SumSentE8(Tail(deposits))

\* C12: the USDT amounts one sweep submits for deposit never total more than
\* max(0, balance - 10), balance being the USDT balance the sweep read.
C12_ReserveLeftUnallocated ==
    \A p \in Procs :
        SumSentE8(fr[p].sw.deposits) <= E8(UsdtAvailable(fr[p].sw.balances))

\* C13: when available = balance - reserve is positive and n >= 1 positions
\* have USDT as collateral, every deposit the sweep attempts is of the share
\* available / n, and a sweep that is over has attempted one for each of
\* the n positions if the share is at least 0.50 and none otherwise.
C13_EvenShares ==
    \A p \in Procs :
        LET f == fr[p]
            usdt_positions == PositionsOf(f.loans, "USDT")
            n == Len(usdt_positions)
            available == RSub(f.sw.balances["USDT"], R(MIN_RESERVE_USD))
            share == RDiv(available, R(n))
        IN  (RLt(ZeroF, available) /\ n >= 1) =>
                /\ \A k \in 1 .. Len(f.sw.deposits) :
                       /\ f.sw.deposits[k].amount = share
                       /\ f.sw.deposits[k].position = PairOf(usdt_positions[k])
                /\ pc[p] = "lap_finish" =>
                       Len(f.sw.deposits) = IF RLe(<<1, 2>>, share) THEN n ELSE 0

(***************************************************************************)
(* Properties of the host service (SpecMonitor, Spec).                     *)
(***************************************************************************)
\* The awaits of loop_all_positions and of what it calls.
CycleLabels ==
    {"lap_fetch", "lap_spot", "lap_leverage", "lap_next", "lp_iter", "lp_final",
     "ex_borrow", "ex_convert", "ex_buy", "ex_fallback", "ex_deposit",
     "sweep", "sweep_asset", "sweep_usdt", "lap_finish"}

InCycle(p) == pc[p] \in CycleLabels

\* C2: at most one execution of loop_all_positions is in progress at any
\* time, be it started by POST /loop or by the monitoring task.
C2_OneCycleAtATime == ~(InCycle("monitor") /\ InCycle("manual"))

\* C4: the monitoring task survives every failure of a cycle: the exception
\* is caught and recorded as last_result = {error}, the task goes on to the
\* sleep before its next cycle unless it is cancelled, and a failure of the
\* snapshot leaves the result of the cycle in last_result.
C4_MonitorSurvivesFailures ==
    [][/\ (InCycle("monitor") /\ fr'["monitor"].ended = "raised") =>
              pc'["monitor"] = "sleep" /\ last_result' = [kind |-> "error"]
       /\ (InCycle("monitor") /\ fr'["monitor"].ended = "returned") =>
              pc'["monitor"] = "snapshot" /\ last_result'.kind = "result"
       /\ InCycle("monitor") =>
              pc'["monitor"] \in CycleLabels \cup {"snapshot", "sleep", "cancelled"}
       /\ pc["monitor"] \in {"snapshot", "snapshot_spot"} =>
              /\ pc'["monitor"] \in {"snapshot", "snapshot_spot", "sleep", "cancelled"}
              /\ last_result' = last_result
              /\ last_result.kind = "result"
       /\ (pc["monitor"] = "sleep" /\ pc'["monitor"] # "sleep") =>
              pc'["monitor"] \in {"lap_fetch", "cancelled"}]_vars

\* The monitoring task has started its second cycle after a first one that
\* failed.
C4_Witness ==
    /\ check_count = 2
    /\ pc["monitor"] = "lap_fetch"
    /\ last_result = [kind |-> "error"]

\* C5: the cancellation at shutdown never interrupts the monitoring task
\* where a borrow was accepted and the deposit of its proceeds has not been
\* attempted yet.
C5_NoCancelBetweenBorrowAndDeposit ==
    ~(/\ pc["monitor"] = "cancelled"
      /\ fr["monitor"].at \in {"ex_convert", "ex_buy", "ex_fallback", "ex_deposit"}
      /\ fr["monitor"].ex.accepted)

(***************************************************************************)
(* Properties of the ProfitTracker (SpecTracker, SpecHistory).             *)
(***************************************************************************)
\* The steps in which reset_tracking runs, in which a record_snapshot
\* returns to the handler h, and in which one returns to any caller.
ResetStep == req["reset"] = "idle" /\ req'["reset"] = "fetch"

RecordStepOf(h) == req[h] = "spot" /\ req'[h] = "idle"

RecordStep ==
    \/ \E h \in {"pnl", "reset"} : RecordStepOf(h)
    \/ pc["monitor"] \in {"startup_spot", "snapshot_spot"} /\ pc'["monitor"] # pc["monitor"]

\* C14: the baseline is set once per tracking session: only a
\* record_snapshot that finds no baseline assigns starting_equity (and
\* starting_timestamp, from its own snapshot), and once they are set only
\* reset_tracking changes them.
C14_BaselineSetOnce ==
    [][/\ (starting_equity # None /\ ~ResetStep) =>
              starting_equity' = starting_equity /\ starting_timestamp' = starting_timestamp
       /\ (starting_equity' # starting_equity /\ starting_equity' # None) =>
              /\ starting_equity = None
              /\ RecordStep
              /\ starting_equity' = <<history'[Len(history')].total_equity_usd>>
              /\ starting_timestamp' = <<history'[Len(history')].timestamp>>
       /\ (starting_equity' = None) <=> (starting_timestamp' = None)]_vars

\* Two snapshots of different equities were recorded from scratch and the
\* baseline is that of the first.
C14_Witness ==
    /\ Len(history) = 2
    /\ history[1].total_equity_usd # history[2].total_equity_usd
    /\ starting_equity = <<history[1].total_equity_usd>>
    /\ starting_timestamp = <<history[1].timestamp>>
    /\ history[1].timestamp = 1

\* C15: once POST /pnl/reset has answered, the baseline is the equity of
\* the snapshot its record_snapshot returned, and the new_starting_equity
\* it reported is that baseline (in cents).
C15_ResetBaselineIsItsSnapshot ==
    out["reset"].status = 200 =>
        /\ starting_equity = <<out["reset"].snapshot[1].total_equity_usd>>
        /\ <<out["reset"].body[1].new_starting_equity>> = <<Round2(starting_equity[1])>>

\* C16: a non-empty history implies a baseline, and reset_tracking takes
\* the tracker in one step to the empty history without baseline and leaves
\* that state in the data file.
C16_ResetClearsTogetherAndPersists ==
    [][/\ history' # <<>> => (starting_equity' # None /\ starting_timestamp' # None)
       /\ ResetStep =>
              /\ history' = <<>>
              /\ starting_equity' = None
              /\ starting_timestamp' = None
              /\ file'.state = "written"
              /\ file'.history = <<>>
              /\ file'.starting_equity = None
              /\ file'.starting_timestamp = None]_vars

\* C17: the snapshot a record_snapshot returns has pnl_absolute = its
\* equity - the baseline and pnl_since_last = its equity - the equity of
\* the last entry the history had (0 for an empty history); the snapshot
\* that sets the baseline has pnl_absolute = 0.
C17_SnapshotPnl ==
    [][\A h \in {"pnl", "reset"} :
           RecordStepOf(h) =>
               LET snapshot == out'[h].snapshot[1]
               IN  /\ snapshot.total_equity_usd = history'[Len(history')].total_equity_usd
                   /\ snapshot.pnl_absolute_usd =
                          RSub(snapshot.total_equity_usd, starting_equity'[1])
                   /\ snapshot.pnl_since_last_usd =
                          IF history = <<>> THEN ZeroF
                          ELSE RSub(snapshot.total_equity_usd,
                                    history[Len(history)].total_equity_usd)
                   /\ starting_equity = None => snapshot.pnl_absolute_usd = ZeroF]_vars

\* GET /pnl got a snapshot that differs from the baseline and from the
\* snapshot before it.
C17_Witness ==
    /\ out["pnl"].status = 200
    /\ Len(history) >= 2
    /\ out["pnl"].snapshot[1].timestamp = history[Len(history)].timestamp
    /\ out["pnl"].snapshot[1].pnl_absolute_usd # ZeroF
    /\ out["pnl"].snapshot[1].pnl_since_last_usd # ZeroF
    /\ out["pnl"].snapshot[1].pnl_since_last_usd # out["pnl"].snapshot[1].pnl_absolute_usd

\* C18: the history is append-only: a record_snapshot that returns appends
\* one entry at the end and leaves the earlier entries in place,
\* get_pnl_summary and get_history leave history and baseline as they are,
\* and only reset_tracking removes entries.
C18_HistoryAppendOnly ==
    [][/\ RecordStep =>
              /\ Len(history') = Len(history) + 1
              /\ SubSeq(history', 1, Len(history)) = history
       /\ (~RecordStep /\ ~ResetStep) =>
              /\ history' = history
              /\ starting_equity' = starting_equity
              /\ starting_timestamp' = starting_timestamp
       /\ Len(history') < Len(history) => ResetStep]_vars

\* GET /pnl/history has answered with two entries after two snapshots were
\* appended to the entry of an earlier session.
C18_Witness ==
    /\ Len(history) = 3
    /\ history[1].timestamp = 1
    /\ history[3].timestamp = 3
    /\ out["history"].status = 200
    /\ Len(out["history"].body[1].history) = 2

\* C19: after a save that succeeded the data file holds at most 1000
\* entries: the most recent min(n, 1000) of the n entries in memory, in
\* their order, with the baseline equity and timestamp in memory.
C19_SavedMostRecent ==
    file.saved =>
        LET n == Len(history)
            k == Len(file.history)
        IN  /\ file.state = "written"
            /\ k <= 1000
            /\ k = IF n < 1000 THEN n ELSE 1000
            /\ \A i \in 1 .. k : file.history[i] = history[n - k + i]
            /\ file.starting_equity = starting_equity
            /\ file.starting_timestamp = starting_timestamp

\* A history of 1001 entries was saved as its last 1000.
C19_Witness ==
    /\ Len(history) = HISTORY_CAP + 1
    /\ file.saved
    /\ Len(file.history) = HISTORY_CAP
    /\ file.history[1] = history[2]

\* The trend of a history as the summary is to report it.
RAbs(x) == <<Abs(x[1]), x[2]>>

TrendOf(h) ==
    LET n == Len(h)
        first == h[IF n >= 5 THEN n - 4 ELSE 1].total_equity_usd
        last == h[n].total_equity_usd
        margin == RMul(RAbs(first), <<1, 1000>>)
    IN  IF RLt(margin, RSub(last, first)) THEN "up"
        ELSE IF RLt(margin, RSub(first, last)) THEN "down"
        ELSE "flat"

SummaryAsSpecified(summary, h) ==
    IF h = <<>>
    THEN /\ summary.trend = "unknown"
         /\ summary.current_equity = None
         /\ summary.high_equity = None
         /\ summary.low_equity = None
         /\ summary.snapshots_count = 0
    ELSE /\ summary.trend = TrendOf(h)
         /\ summary.snapshots_count = Len(h)

\* C20: get_pnl_summary reports the trend over the last 5 entries (all of a
\* shorter history): up exactly when the latest equity is above the
\* window's first by more than 0.1%, down exactly when it is below by more
\* than 0.1%, flat otherwise; for an empty history it reports unknown, null
\* current, high and low equity and a count of 0.
C20_TrendOfSummary ==
    [][/\ out'["history"] # out["history"] =>
              SummaryAsSpecified(out'["history"].body[1].summary, history')
       /\ RecordStepOf("pnl") =>
              SummaryAsSpecified(out'["pnl"].body[1].summary, history')]_vars

\* The trend of a window when a change of exactly 0.1% counts as a rise or
\* a fall.
TrendInclusive(h) ==
    LET n == Len(h)
        first == h[n - 4].total_equity_usd
        last == h[n].total_equity_usd
        margin == RMul(RAbs(first), <<1, 1000>>)
    IN  IF RLt(first, last) /\ RLe(margin, RSub(last, first)) THEN "up"
        ELSE IF RLt(last, first) /\ RLe(margin, RSub(first, last)) THEN "down"
        ELSE "flat"

\* C21: for every 5-entry window of equities, of any sign, get_pnl_summary
\* reports flat when the latest value differs from the window's first by
\* less than 0.1%, up when it is higher by at least 0.1% and down when it is
\* lower by at least 0.1%, exactly 0.1% included.
C21_TrendInclusive ==
    [][/\ (out'["history"] # out["history"] /\ Len(history') >= 5) =>
              out'["history"].body[1].summary.trend = TrendInclusive(history')
       /\ (RecordStepOf("pnl") /\ Len(history') >= 5) =>
              out'["pnl"].body[1].summary.trend = TrendInclusive(history')]_vars

(***************************************************************************)
(* Properties of the ProfitTracker from its construction on (SpecPersist). *)
(***************************************************************************)
\* The step in which the ProfitTracker is constructed.
LoadStep == req["pnl"] = "off" /\ req'["pnl"] # "off"

\* C22: a persistence failure never stops tracking: a record_snapshot whose
\* save fails still appends its entry to the history in memory and returns
\* its snapshot, later snapshots compute pnl_since_last from the last entry
\* in memory, and a tracker whose load fails is constructed with the empty
\* history.
C22_TrackingSurvivesPersistenceFailures ==
    [][/\ \A h \in {"pnl", "reset"} :
           RecordStepOf(h) =>
               /\ ~file'.saved =>
                      /\ out'[h].status = 200
                      /\ Len(history') = Len(history) + 1
                      /\ SubSeq(history', 1, Len(history)) = history
                      /\ history'[Len(history')].total_equity_usd =
                             out'[h].snapshot[1].total_equity_usd
                      /\ history'[Len(history')].timestamp = out'[h].snapshot[1].timestamp
               /\ history # <<>> =>
                      out'[h].snapshot[1].pnl_since_last_usd =
                          RSub(out'[h].snapshot[1].total_equity_usd,
                               history[Len(history)].total_equity_usd)
       /\ LoadStep =>
              /\ \A h \in Handlers : req'[h] = "idle"
              /\ (file.state = "truncated" \/ diskFaults' < diskFaults) => history' = <<>>
              /\ (file.state = "written" /\ diskFaults' = diskFaults) =>
                     history' = file.history]_vars

\* The tracker was constructed from a data file cut short, the saves of its
\* two snapshots failed, and GET /pnl got the second one with its change
\* against the first.
C22_Witness ==
    /\ file.state = "truncated"
    /\ ~file.saved
    /\ diskFaults = 0
    /\ Len(history) = 2
    /\ out["pnl"].status = 200
    /\ out["pnl"].snapshot[1].timestamp = history[2].timestamp
    /\ out["pnl"].snapshot[1].pnl_since_last_usd # ZeroF
    /\ out["pnl"].snapshot[1].pnl_since_last_usd =
           RSub(history[2].total_equity_usd, history[1].total_equity_usd)

(***************************************************************************)
(* Properties of concurrent snapshots (SpecSnapshots).                     *)
(***************************************************************************)
\* No POST /pnl/reset has arrived so far.
NeverReset == req["reset"] = "idle" /\ out["reset"].status = 0

ExLabels == {"ex_borrow", "ex_convert", "ex_buy", "ex_fallback", "ex_deposit"}

CycleEnds(p) == pc[p] \in ExLabels /\ pc'[p] \notin ExLabels

\* C24: when a cycle reports failure, loop_position stops: it goes to its
\* final re-read without another iteration, counts no loop and no amounts
\* for the cycle and appends the cycle's error to errors; from the re-read it
\* returns with that result, and no borrow, conversion or adjustment is
\* requested on the way.
C24_FailureStopsDriver ==
    [][\A p \in Procs :
        /\ (CycleEnds(p) /\ ~fr'[p].ex.result.success) =>
               /\ pc'[p] = "lp_final"
               /\ fr'[p].lp.result.loops_executed = fr[p].lp.result.loops_executed
               /\ fr'[p].lp.result.total_borrowed_usd = fr[p].lp.result.total_borrowed_usd
               /\ fr'[p].lp.result.total_added_usd = fr[p].lp.result.total_added_usd
               /\ fr'[p].lp.result.errors =
                      Append(fr[p].lp.result.errors, fr'[p].ex.result.error)
               /\ fr'[p].lp.cycles = fr[p].lp.cycles
        /\ pc[p] = "lp_final" =>
               /\ pc'[p] \notin ExLabels \cup {"lp_iter"}
               /\ fr'[p].calls = fr[p].calls
               /\ pc'[p] = "lap_next" =>
                      LET d == fr'[p].result.details[Len(fr'[p].result.details)]
                      IN  /\ d.errors = fr[p].lp.result.errors
                          /\ d.loops_executed = fr[p].lp.result.loops_executed]_vars

\* A cycle returned after a driver that completed one loop and stopped at
\* the failure of the next.
C24_Witness ==
    \E p \in Procs :
        /\ fr[p].ended = "returned"
        /\ \E i \in 1 .. Len(fr[p].result.details) :
               /\ fr[p].result.details[i].loops_executed = 1
               /\ fr[p].result.details[i].errors \in
                      {<<"Borrow failed">>, <<"Convert failed">>, <<"Add collateral failed">>}

\* The step in which the borrow request of a cycle was issued and the venue
\* did not accept it: it answered with an error or the request failed.
BorrowRefused(p) ==
    /\ pc[p] = "ex_borrow"
    /\ pc'[p] # "ex_borrow"
    /\ "borrow" \in fr'[p].calls
    /\ faults' # faults

\* C25: when the venue does not accept the borrow request of a cycle,
\* execute_loop ends the cycle with success = false, borrowed_usd = 0,
\* added_usd = 0 and the error of the gateway, without a conversion and
\* without a collateral adjustment.
C25_RefusedBorrowEndsCycle ==
    [][\A p \in Procs :
        BorrowRefused(p) =>
            /\ pc'[p] = "lp_final"
            /\ fr'[p].ex.result = LoopOutcome(FALSE, ZeroF, ZeroF, "Borrow failed")]_vars

\* C26: execute_loop reports success only for a cycle whose borrow the venue
\* accepted and whose collateral addition it accepted then; a successful
\* outcome has borrowed_usd > 0 and the added_usd of the deposit, and a
\* failed one has added_usd = 0.
C26_SuccessMeansBorrowedAndDeposited ==
    [][\A p \in Procs :
        CycleEnds(p) =>
            LET res == fr'[p].ex.result
                cc == fr[p].lp.current_loan.collateralCoin
            IN  /\ res.success =>
                    /\ fr[p].ex.accepted
                    /\ pc[p] = "ex_deposit"
                    /\ faults' = faults
                    /\ RLt(ZeroF, res.borrowed_usd)
                    /\ res.added_usd = RMul(fr[p].ex.add_amount, GetPrice(cc, Feed))
                /\ ~res.success => res.added_usd = ZeroF]_vars

\* C27: the driver never reuses a position record across iterations: every
\* call of execute_loop follows, in the same iteration, a fetch of the
\* position list, and gets the record of the position in that list, which
\* it keeps to its end.
C27_FreshRecordEachIteration ==
    [][\A p \in Procs :
        /\ (pc'[p] = "ex_borrow" /\ pc[p] # "ex_borrow") =>
               /\ pc[p] = "lp_iter"
               /\ fr'[p].fetches = fr[p].fetches + 1
               /\ fr'[p].driver_stamp = fr'[p].fetches
               /\ fr'[p].lp.current_loan # NoLoan
               /\ fr'[p].lp.current_loan =
                      FindLoan(venueLoans, fr[p].lp.coll_coin, fr[p].lp.loan_coin)
        /\ (pc[p] \in ExLabels /\ pc'[p] \in ExLabels) =>
               fr'[p].lp.current_loan = fr[p].lp.current_loan]_vars

\* The second cycle of a driver is about to borrow, on the record of the
\* third fetch of the portfolio cycle, after the deposit of the first.
C27_Witness ==
    \E p \in Procs :
        /\ pc[p] = "ex_borrow"
        /\ fr[p].lp.cycles = 2
        /\ fr[p].lp.result.loops_executed = 1
        /\ "adjust" \in fr[p].calls
        /\ fr[p].driver_stamp = 3
        /\ fr[p].lp.current_loan = FindLoan(venueLoans, fr[p].lp.coll_coin, fr[p].lp.loan_coin)

(***************************************************************************)
(* Properties of the driver on a venue that changes (SpecVenue).           *)
(***************************************************************************)
\* The step in which an iteration of the driver got the answer of its fetch.
IterationStep(p) ==
    /\ pc[p] = "lp_iter"
    /\ fr'[p].ended = "no"
    /\ fr'[p].fetches = fr[p].fetches + 1

\* C28: when the list fetched at the start of an iteration has no position
\* with the driver's collateral and loan coins (the position was closed, or
\* the venue answered without rows), loop_position leaves its loop at once:
\* no borrow, conversion or deposit is requested and 'Position no longer
\* exists' is appended to errors.
C28_GonePositionStopsDriver ==
    [][\A p \in Procs :
        (/\ IterationStep(p)
         /\ \/ FindLoan(venueLoans, fr[p].lp.coll_coin, fr[p].lp.loan_coin) = NoLoan
            \/ faults' # faults) =>
            /\ pc'[p] = "lp_final"
            /\ fr'[p].calls = fr[p].calls
            /\ fr'[p].lp.cycles = fr[p].lp.cycles
            /\ fr'[p].lp.result.loops_executed = fr[p].lp.result.loops_executed
            /\ fr'[p].lp.result.errors =
                   Append(fr[p].lp.result.errors, "Position no longer exists")]_vars

\* A driver completed one loop, found its position closed at the next
\* iteration and returned.
C28_Witness ==
    \E p \in Procs :
        /\ venueLoans = <<>>
        /\ faults = 0
        /\ Len(fr[p].result.details) = 1
        /\ fr[p].result.details[1].loops_executed = 1
        /\ fr[p].result.details[1].errors = <<"Position no longer exists">>

\* The borrow capacity of a position record at the prices of the moment is
\* below the minimum loop.
Exhausted(loan) == RLt(calculate_borrow_amount(loan, Feed)[2], R(MIN_LOOP_USD))

\* C29: a driver run that ends because the borrow capacity at target LTV is
\* below the minimum loop, found by the driver's check or by the cycle's own
\* computation at the prices of its moment, ends without a borrow request
\* and without an entry in errors.
C29_ExhaustionIsNoError ==
    [][\A p \in Procs :
        (\/ /\ IterationStep(p)
            /\ fr'[p].lp.current_loan # NoLoan
            /\ Exhausted(fr'[p].lp.current_loan)
         \/ /\ pc[p] = "ex_borrow"
            /\ pc'[p] # "ex_borrow"
            /\ Exhausted(fr[p].lp.current_loan)) =>
            /\ pc'[p] = "lp_final"
            /\ fr'[p].calls = fr[p].calls
            /\ fr'[p].lp.result.errors = fr[p].lp.result.errors]_vars

\* C30: when loop_position returns and the list it fetched last, after the
\* last cycle of the run, has the position, final_leverage is the leverage
\* of the record in that list at the prices of that moment.
C30_FinalLeverageReRead ==
    [][\A p \in Procs :
        (/\ pc[p] = "lp_final"
         /\ pc'[p] = "lap_next"
         /\ faults' = faults
         /\ FindLoan(venueLoans, fr[p].lp.coll_coin, fr[p].lp.loan_coin) # NoLoan) =>
            LET d == fr'[p].result.details[Len(fr'[p].result.details)]
            IN  /\ fr'[p].fetches = fr[p].fetches + 1
                /\ d.position = <<fr[p].lp.coll_coin, fr[p].lp.loan_coin>>
                /\ d.final_leverage =
                       get_current_leverage(
                           FindLoan(venueLoans, fr[p].lp.coll_coin, fr[p].lp.loan_coin), Feed)]_vars

\* A driver returned after a cycle that borrowed and then failed: its final
\* leverage is that of the position with the new debt, not the leverage it
\* started with.
C30_Witness ==
    \E p \in Procs :
        /\ Len(fr[p].result.details) = 1
        /\ Len(venueLoans) = 1
        /\ fr[p].result.details[1].loops_executed = 0
        /\ fr[p].result.details[1].errors = <<"Convert failed">>
        /\ fr[p].result.details[1].final_leverage # fr[p].result.details[1].initial_leverage
        /\ fr[p].result.details[1].final_leverage = get_current_leverage(venueLoans[1], Feed)
        /\ venueLoans[1] # fr[p].sorted_loans[1][2]

\* C31: when the list of the driver's final re-read has no row of the
\* position, which vanished after the last successful cycle, loop_position
\* still returns its result, with final_leverage = 0.
C31_VanishedPositionReportsZero ==
    [][\A p \in Procs :
        (/\ pc[p] = "lp_final"
         /\ fr'[p].fetches = fr[p].fetches + 1
         /\ fr[p].lp.result.loops_executed >= 1
         /\ fr[p].lp.result.errors = <<>>
         /\ \/ FindLoan(venueLoans, fr[p].lp.coll_coin, fr[p].lp.loan_coin) = NoLoan
            \/ faults' # faults) =>
            /\ pc'[p] = "lap_next"
            /\ Len(fr'[p].result.details) = Len(fr[p].result.details) + 1
            /\ fr'[p].result.details[Len(fr'[p].result.details)].final_leverage = ZeroF]_vars

\* The steps of a cycle in which the conversion is under way.
ConvertStage == {"ex_convert", "ex_buy", "ex_fallback"}

\* The convertible amount the cycle of p has just computed is worth at least
\* 5 USD, so the order book is tried first.
MarketSized(p) ==
    RLe(R(5), RMul(fr'[p].ex.convert_amount,
                   GetPrice(fr[p].lp.current_loan.loanCoin, Feed)))

\* C32: a failed call of the order-book path is followed by exactly one call of
\* convert_asset; the cycle goes on to the deposit when that call succeeds and
\* ends with a conversion error when it fails.  convert_asset is called at
\* most once in a cycle and never after an order-book path that completed.
C32_FallbackExactlyOnce ==
    [][\A p \in Procs :
        \* the order-book path: a failed call leads to the fallback, a
        \* successful path never does
        /\ (pc[p] = "ex_buy" /\ pc'[p] # "ex_buy") =>
               IF faults' # faults THEN pc'[p] = "ex_fallback"
               ELSE pc'[p] = "ex_deposit"
        /\ (pc[p] = "ex_convert" /\ pc'[p] \in ExLabels \ {"ex_convert"}) =>
               (pc'[p] = "ex_fallback" <=> (MarketSized(p) /\ faults' # faults))
        /\ (pc[p] = "ex_convert" /\ pc'[p] \notin ExLabels) =>
               ~(MarketSized(p) /\ RLe(<<1, 100>>, fr'[p].ex.convert_amount))
        /\ pc'[p] = "ex_fallback" => pc[p] \in ConvertStage
        \* the fallback: one call, then the deposit or the end of the cycle
        /\ (pc[p] = "ex_fallback" /\ pc'[p] = "ex_fallback") => fr'[p] = fr[p]
        /\ (pc[p] = "ex_fallback" /\ pc'[p] # "ex_fallback") =>
               /\ "convert" \in fr'[p].calls
               /\ IF faults' = faults THEN pc'[p] = "ex_deposit"
                  ELSE /\ pc'[p] \notin ExLabels
                       /\ fr'[p].ex.result.error = "Convert failed"
                       /\ ~fr'[p].ex.result.success
        \* a conversion that went through the Convert API or the order book
        \* is not followed by another one in the same cycle
        /\ pc[p] = "ex_deposit" => pc'[p] \notin ConvertStage
        /\ (pc[p] = "ex_convert" /\ pc'[p] \in {"ex_buy", "ex_deposit"}
               /\ ~MarketSized(p)) => pc'[p] = "ex_deposit"]_vars

\* In the first cycle of a run the second leg of the two-leg route has
\* failed, the fallback conversion has succeeded and the cycle is at its
\* deposit.
C32_Witness ==
    \E p \in Procs :
        /\ pc[p] = "ex_deposit"
        /\ fr[p].result.details = <<>>
        /\ fr[p].lp.result.loops_executed = 0
        /\ {"trade", "convert"} \subseteq fr[p].calls
        /\ fr[p].ex.usdt_received # ZeroF
        /\ fr[p].ex.add_amount # ZeroF

\* min(borrow_amount, loan_balance * 0.99) for the cycle of p.
Convertible(p) ==
    RMin(fr'[p].ex.borrow_amount,
         RMul(spot[fr[p].lp.current_loan.loanCoin], <<99, 100>>))

SweepTurn(p) ==
    /\ pc[p] \in {"sweep_asset", "sweep_usdt"}
    /\ fr'[p] # fr[p]

\* The turn goes on to the next asset or position, or to the end of the sweep.
SweepGoesOn(p) ==
    /\ pc'[p] \in {"sweep_asset", "sweep_usdt", "lap_finish"}
    /\ pc[p] = "sweep_asset" => fr'[p].sw.i = fr[p].sw.i + 1
    /\ pc[p] = "sweep_usdt" => fr'[p].sw.j = fr[p].sw.j + 1

\* C34: a deposit of the sweep that failed does not stop the sweep, which goes
\* on with the remaining assets and positions, and swept_usd and
\* positions_swept count exactly the deposits the venue accepted: a request
\* that went wrong adds nothing to them.
C34_SweepCountsAccepted ==
    [][\A p \in Procs :
        SweepTurn(p) =>
            /\ SweepGoesOn(p)
            /\ faults' # faults => fr'[p].sw.result = fr[p].sw.result
            /\ fr'[p].sw.result # fr[p].sw.result =>
                   /\ faults' = faults
                   /\ fr'[p].sw.result.positions_swept = fr[p].sw.result.positions_swept + 1
                   /\ Len(fr'[p].sw.result.details) = Len(fr[p].sw.result.details) + 1]_vars

\* The positions of a list whose collateral is the asset.
WithCollateral(loans, asset) ==
    {i \in 1 .. Len(loans) : loans[i].collateralCoin = asset}

\* The first of them.
FirstWithCollateral(loans, asset) ==
    loans[CHOOSE i \in WithCollateral(loans, asset) :
              \A j \in WithCollateral(loans, asset) : i <= j]

\* The asset of a turn of the sweep may be deposited: it is no Simple Earn
\* token and not USDT, a position has it as collateral and the holding is
\* worth at least 0.10 USD.
Eligible(f, asset) ==
    /\ ~IsEarnToken(asset)
    /\ asset # "USDT"
    /\ WithCollateral(f.loans, asset) # {}
    /\ RLe(<<1, 10>>, RMul(f.sw.balances[asset], GetPrice(asset, Feed)))

\* The entries of the sweep's details for the asset.
DepositsOf(f, asset) ==
    {k \in 1 .. Len(f.sw.result.details) : f.sw.result.details[k].asset = asset}

\* C35: a sweep requests at most one deposit for each asset other than USDT:
\* one, of 99% of the holding and into the first position of the list with
\* the asset as collateral, when there is such a position and the holding is
\* worth at least 0.10 USD, and none otherwise.  A Simple Earn token (LD...)
\* is never deposited, and a second position with the same collateral coin
\* receives nothing.
C35_OneDepositPerAsset ==
    /\ [][\A p \in Procs :
            (pc[p] = "sweep_asset" /\ fr'[p] # fr[p]) =>
                LET f == fr[p]
                    asset == AssetOrder[f.sw.i]
                    requested == fr'[p].sw.result # f.sw.result \/ faults' # faults
                IN  /\ fr'[p].sw.i = f.sw.i + 1
                    /\ requested <=> Eligible(f, asset)
                    /\ fr'[p].sw.result # f.sw.result =>
                           fr'[p].sw.result.details =
                               Append(f.sw.result.details,
                                      [asset |-> asset,
                                       amount |-> RMul(f.sw.balances[asset], <<99, 100>>),
                                       usd |-> RMul(f.sw.balances[asset], GetPrice(asset, Feed)),
                                       position |->
                                           <<asset, FirstWithCollateral(f.loans, asset).loanCoin>>])]_vars
    /\ [](\A p \in Procs : \A asset \in SpotAssets \ {"USDT"} :
            /\ Cardinality(DepositsOf(fr[p], asset)) <= 1
            /\ IsEarnToken(asset) => DepositsOf(fr[p], asset) = {})

\* A sweep has ended on a list with two positions of BTC collateral and one
\* of a Simple Earn token: BTC went to the first of the two, the token
\* nowhere.
C35_Witness ==
    \E p \in Procs :
        LET f == fr[p]
        IN  /\ pc[p] = "lap_finish"
            /\ Cardinality(WithCollateral(f.loans, "BTC")) = 2
            /\ WithCollateral(f.loans, "LDBTC") # {}
            /\ f.sw.balances["LDBTC"] # ZeroF
            /\ DepositsOf(f, "LDBTC") = {}
            /\ \E k \in DepositsOf(f, "BTC") :
                   f.sw.result.details[k].position =
                       <<"BTC", FirstWithCollateral(f.loans, "BTC").loanCoin>>

\* C36: the totals of a position account for every cycle of the driver's run:
\* the borrowed_usd of each cycle outcome, also of a last cycle that failed
\* after its borrow, is added to total_borrowed_usd, which is what
\* loop_position returns.
C36_TotalsCoverEveryCycle ==
    [][\A p \in Procs :
        /\ CycleEnds(p) =>
               fr'[p].lp.result.total_borrowed_usd =
                   RAdd(fr[p].lp.result.total_borrowed_usd, fr'[p].ex.result.borrowed_usd)
        /\ (pc[p] = "lp_final" /\ pc'[p] = "lap_next") =>
               fr'[p].result.details[Len(fr'[p].result.details)].total_borrowed_usd =
                   fr[p].lp.result.total_borrowed_usd]_vars

\* The step in which execute_loop of p requests its borrow.
BorrowIssued(p) ==
    /\ pc[p] = "ex_borrow"
    /\ fr'[p] # fr[p]
    /\ fr'[p].ex.result.error # "Borrow amount too small"

\* C37: execute_loop requests a borrow only when, at the prices its capacity
\* calculation reads, both prices are not 0 and debt value + MIN_LOOP_USD <=
\* 0.75 * collateral value; the amount borrowed brings the debt value to
\* exactly 0.75 * collateral value, never above it, so that the leverage of
\* the position at those prices right after the borrow is at most 4.
C37_BorrowWithinTarget ==
    [][\A p \in Procs :
        BorrowIssued(p) =>
            LET loan == fr[p].lp.current_loan
                coll_price == GetPrice(loan.collateralCoin, Feed)
                loan_price == GetPrice(loan.loanCoin, Feed)
                coll_usd == RMul(loan.collateralAmount, coll_price)
                debt_usd == RMul(loan.totalDebt, loan_price)
                target == RMul(coll_usd, TARGET_LTV)
                after == FindLoan(venueLoans', loan.collateralCoin, loan.loanCoin)
            IN  /\ coll_price # ZeroF /\ loan_price # ZeroF
                /\ RLe(RAdd(debt_usd, R(MIN_LOOP_USD)), target)
                /\ venueLoans' # venueLoans =>
                       /\ RMul(after.totalDebt, loan_price) = target
                       /\ RLe(get_current_leverage(after, Feed), R(4))]_vars

\* The amount of the loan coin the cycle of p has sold so far: convert_amount
\* once the sale of the two-leg route went through.
SoldSoFar(p) ==
    IF fr[p].ex.usdt_received # ZeroF THEN fr[p].ex.convert_amount ELSE ZeroF

\* The amount of the loan coin a step of the cycle of p submits: the first
\* conversion request and the fallback submit convert_amount, the buy of the
\* two-leg route spends USDT.
Submits(p) ==
    IF pc[p] = "ex_fallback" /\ pc'[p] # "ex_fallback" THEN fr[p].ex.convert_amount
    ELSE IF pc[p] = "ex_convert" /\ pc'[p] # "ex_convert"
    THEN fr'[p].ex.convert_amount
    ELSE ZeroF

\* C38: in one cycle the loan coin submitted to market_sell, market_buy (as
\* quote) and convert_asset never exceeds the convertible amount
\* min(borrowed amount, 99% of the balance), also when the sale went through,
\* the buy failed and the fallback conversion is called.
C38_LoanAssetSubmittedOnce ==
    [][\A p \in Procs :
        pc[p] \in ConvertStage =>
            RLe(RAdd(SoldSoFar(p), Submits(p)),
                IF pc[p] = "ex_convert" THEN Convertible(p) ELSE fr[p].ex.convert_amount)]_vars

\* The summary get_pnl_summary gives once the step is done, and the entry
\* the step has appended to the history.
SummaryAfter == get_pnl_summary(history', starting_equity', starting_timestamp')

LatestAfter == history'[Len(history')]

\* C39: the P&L summary agrees with the snapshots: once record_snapshot has
\* stored an entry, get_pnl_summary gives the entry's pnl_absolute_usd as
\* pnl_absolute, its pnl_percent as pnl_percent and its equity as
\* current_equity, whatever the baseline is (0 and negative included).
C39_SummaryAgreesWithSnapshot ==
    [][Len(history') = Len(history) + 1 =>
           /\ SummaryAfter.current_equity = <<LatestAfter.total_equity_usd>>
           /\ SummaryAfter.pnl_absolute = LatestAfter.pnl_absolute_usd
           /\ SummaryAfter.pnl_percent = LatestAfter.pnl_percent]_vars

====
